---- MODULE Spec2Model ----
(***************************************************************************)
(* PAP server: the accept loop of server/src/main.c and the session        *)
(* protocol engine of server/src/session.c (the documented version, lines  *)
(* 372-968), as a state machine.                                           *)
(*                                                                         *)
(* Strings are sequences of byte values (C strings without their           *)
(* terminating NUL).  The server is single threaded: one connection is     *)
(* served at a time, so the state holds one connection's locals.           *)
(*                                                                         *)
(* Environment assumptions: malloc and strdup do not fail; paths hold no   *)
(* "." or ".." components; a send that fails may have written any proper   *)
(* prefix of its buffer.                                                   *)
(***************************************************************************)
EXTENDS Integers, Sequences, FiniteSets, TLC

VARIABLES
    pc,                \* position of the single server thread
    current_username,  \* session.c:415, static char current_username[256]
    passwd,            \* identity resolver: user name -> home directory
    envHome,           \* getenv("HOME"), NULL when unset
    fs_dirs,           \* filesystem: the directories (component lists)
    fs_files,          \* filesystem: regular file -> contents
    out,               \* bytes the server has written to the current connection
    entered,           \* handle_unlocked_session was called on this connection
    ret,               \* return value of handle_unlocked_session
    username,          \* handle_unlocked_session: char *username
    mode,              \* handle_unlocked_session: unsigned char mode
    requested_path,    \* handler: the path frame received (requested/target/dir path)
    expanded_path,     \* handler: char *expanded_path
    name_copy,         \* handle_download: char name_copy[4096]
    f,                 \* handler: FILE *f
    dir,               \* handle_list: DIR *dir (entries not yet enumerated)
    enumerated,        \* history: entries readdir has returned on this connection
    received,          \* history: payload bytes recv returned in the upload data phase
    oldContent,        \* history: contents of the upload target before fopen "wb"
    opened,            \* history: outcome of the handler's fopen/opendir: "no", "ok", "fail"
    sendOk,            \* history: no send on this connection has failed
    sig,               \* main: the result of the unlock recv (-1 when n <= 0)
    uploadsLeft,       \* upload sessions the clients may still start
    clientModes,       \* the mode bytes the clients of this run send
    clientPaths,       \* the raw paths the clients of this run send
    clientChunks,      \* the data chunks the uploading clients of this run send
    clientNames,       \* the usernames the clients of this run send
    peerBytes,         \* recv_path_alloc: all the bytes the peer sends before it closes
    stream,            \* recv_path_alloc: the bytes of peerBytes no recv has returned yet
    rxbuf,             \* recv_exact: the bytes buf holds, Len(rxbuf) = total
    rxlen,             \* recv_path_alloc: len, once the header is read
    rxresult,          \* recv_path_alloc: the returned string, NULL for a null pointer
    closes,            \* main: the close(client_fd) calls made on the current connection
    tried,             \* ensure_parent_dirs: the paths passed to mkdir, in call order
    mkdirDenied,       \* the directory nodes mkdir cannot create (EACCES, ENOSPC, ...)
    n_recv,            \* handle_upload: n, what the last recv of the data loop returned
    dataLimit,         \* the bytes a client sends in the data phase of one upload, at most
    io,                \* recv_exact, send_all: one call's arguments, locals and socket
    path_live,         \* the buffer expanded_path points to is allocated and not yet freed
    uaf,               \* a read of that buffer happened while it was not allocated
    open_conns         \* main: the connections accept returned that are not yet closed

vars == << pc, current_username, passwd, envHome, fs_dirs, fs_files, out, entered,
           ret, username, mode, requested_path, expanded_path, name_copy, f, dir,
           enumerated, received, oldContent, opened, sendOk, sig, uploadsLeft, clientModes,
           clientPaths, clientChunks, clientNames, peerBytes, stream, rxbuf, rxlen, rxresult, closes, tried,
           mkdirDenied, n_recv, dataLimit, io, path_live, uaf, open_conns >>

----------------------------------------------------------------------------
(* Bounds of the model *)

MaxUploads == 1       \* upload sessions per behaviour of Spec
MaxReuploads == 2     \* upload sessions per behaviour of SpecReupload
MaxChunks == 1        \* bytes received in the data phase of one upload
MaxDataBytes == 3     \* the same, for the uploads of SpecData
MaxIoLen == 4         \* the len argument of the calls of SpecIo
MaxRawLen == 4        \* length of the raw paths of SpecResolve
MaxFrameBytes == 2    \* length of the enumerated frame payloads of SpecFrame
MaxRecv == 2          \* bytes one recv returns, unless it returns all it can
MaxDirPathLen == 6    \* length of the upload targets of SpecEnsure

----------------------------------------------------------------------------
(* Program constants *)

UNLOCK_SIGNAL == 1
BUFFER_SIZE == 4096
MODE_DOWNLOAD == 68
MODE_UPLOAD == 85
MODE_LIST == 76
STATUS_OK == 0
STATUS_ERROR == 1
MAX_FRAME_LEN == 4096
USERNAME_SIZE == 256
NAME_COPY_SIZE == 4096
TMP_SIZE == 4097
NUL == 0
SLASH == 47
TILDE == 126

NULL == << -1 >>                       \* a null pointer
RootHome == <<47, 114, 111, 111, 116>> \* "/root"
Dot == <<46>>                          \* "."
DotDot == <<46, 46>>                   \* ".."

----------------------------------------------------------------------------
(* C string helpers *)

Min(a, b) == IF a < b THEN a ELSE b

Take(s, n) == SubSeq(s, 1, Min(n, Len(s)))

Drop(s, n) == SubSeq(s, n + 1, Len(s))

\* index of the first c in s, 0 when there is none
strchr(s, c) ==
    IF \E i \in 1..Len(s) : s[i] = c
    THEN CHOOSE i \in 1..Len(s) : s[i] = c /\ \A j \in 1..(i - 1) : s[j] # c
    ELSE 0

\* index of the last c in s, 0 when there is none
strrchr(s, c) ==
    IF \E i \in 1..Len(s) : s[i] = c
    THEN CHOOSE i \in 1..Len(s) : s[i] = c /\ \A j \in (i + 1)..Len(s) : s[j] # c
    ELSE 0

\* the C string held by a buffer: its bytes up to the first NUL
CStr(buf) ==
    LET k == strchr(buf, NUL) IN IF k = 0 THEN buf ELSE SubSeq(buf, 1, k - 1)

\* strncpy(dst, src, n) followed by dst[n] = '\0'
strncpy(src, n) == Take(src, n)

----------------------------------------------------------------------------
(* Framing *)

htonl(n) == << (n \div 16777216) % 256, (n \div 65536) % 256, (n \div 256) % 256, n % 256 >>

\* mutant of ntohl: the four bytes are read least significant first
ntohl_littleendian(b) == b[4] * 16777216 + b[3] * 65536 + b[2] * 256 + b[1]

ntohl(b) == b[1] * 16777216 + b[2] * 65536 + b[3] * 256 + b[4]

Frame(payload) == htonl(Len(payload)) \o payload

\* recv_path_alloc on a connection that delivers the bytes of wire and then
\* closes or stalls no further: NULL, or the received C string
recv_path_alloc(wire) ==
    IF Len(wire) < 4 THEN NULL
    ELSE LET len == ntohl(SubSeq(wire, 1, 4)) IN
         IF len = 0 \/ len > MAX_FRAME_LEN THEN NULL
         ELSE IF Len(wire) - 4 < len THEN NULL
         ELSE CStr(SubSeq(wire, 5, 4 + len))

\* send_all(fd, buf, len) when the socket accepts k bytes in all: its return value
send_all(buf, k) == IF k = Len(buf) THEN Len(buf) ELSE -1

----------------------------------------------------------------------------
(* Path manipulation *)

\* mutant of path_basename: the whole path is taken as the name
path_basename_whole(path) == path

path_basename(path) ==
    LET slash == strrchr(path, SLASH) IN
    IF slash # 0 THEN Drop(path, slash) ELSE path

getpwnam(name) == IF name \in DOMAIN passwd THEN passwd[name] ELSE NULL

\* mutant of expand_tilde: "~" and "~/..." ignore the username hint
expand_tilde_nohint(path) ==
    IF path = <<>> \/ path[1] # TILDE THEN path
    ELSE LET rest == Tail(path) IN
         IF rest = <<>> \/ rest[1] = SLASH
         THEN (IF envHome = NULL THEN RootHome ELSE envHome) \o rest
         ELSE LET slash == strchr(rest, SLASH)
                  userlen == IF slash # 0 THEN slash - 1 ELSE Len(rest)
                  pw == getpwnam(SubSeq(rest, 1, userlen))
              IN IF pw = NULL THEN path
                 ELSE pw \o (IF slash # 0 THEN Drop(rest, slash - 1) ELSE <<>>)

\* mutant of expand_tilde: "~name" whose lookup fails falls back to HOME
\* and "/root" like "~" does
expand_tilde_fallback(path) ==
    IF path = <<>> \/ path[1] # TILDE THEN path
    ELSE LET rest == Tail(path) IN
         IF rest = <<>> \/ rest[1] = SLASH
         THEN LET h1 == IF current_username # <<>> THEN getpwnam(current_username) ELSE NULL
                  h2 == IF h1 = NULL THEN envHome ELSE h1
              IN (IF h2 = NULL THEN RootHome ELSE h2) \o rest
         ELSE LET slash == strchr(rest, SLASH)
                  userlen == IF slash # 0 THEN slash - 1 ELSE Len(rest)
                  pw == getpwnam(SubSeq(rest, 1, userlen))
                  h2 == IF pw = NULL THEN envHome ELSE pw
              IN (IF h2 = NULL THEN RootHome ELSE h2)
                 \o (IF slash # 0 THEN Drop(rest, slash - 1) ELSE <<>>)

\* mutant of expand_tilde: the tilde is looked for anywhere in the path
expand_tilde_anywhere(path) ==
    LET t == strchr(path, TILDE) IN
    IF t = 0 THEN path
    ELSE LET h2 == IF current_username \in DOMAIN passwd /\ current_username # <<>>
                   THEN passwd[current_username] ELSE envHome
         IN (IF h2 = NULL THEN RootHome ELSE h2) \o Drop(path, t)

expand_tilde(path) ==
    IF path = <<>> \/ path[1] # TILDE THEN path
    ELSE LET rest == Tail(path) IN
         IF rest = <<>> \/ rest[1] = SLASH
         THEN LET h1 == IF current_username # <<>> THEN getpwnam(current_username) ELSE NULL
                  h2 == IF h1 = NULL THEN envHome ELSE h1
                  h3 == IF h2 = NULL THEN RootHome ELSE h2
              IN h3 \o rest
         ELSE LET slash == strchr(rest, SLASH)
                  userlen == IF slash # 0 THEN slash - 1 ELSE Len(rest)
                  pw == IF userlen < USERNAME_SIZE
                        THEN getpwnam(SubSeq(rest, 1, userlen)) ELSE NULL
              IN IF pw = NULL THEN path
                 ELSE pw \o (IF slash # 0 THEN Drop(rest, slash - 1) ELSE <<>>)

----------------------------------------------------------------------------
(* Filesystem collaborator.  A node is named by the list of components of   *)
(* its absolute path; the root directory is the empty list.                 *)

Cwd == << <<119>> >>                   \* the server's working directory, "/w"

RECURSIVE Components(_)
Components(s) ==
    IF s = <<>> THEN <<>>
    ELSE LET k == strchr(s, SLASH) IN
         IF k = 0 THEN << s >>
         ELSE (IF k = 1 THEN <<>> ELSE << SubSeq(s, 1, k - 1) >>) \o Components(Drop(s, k))

Front(s) == SubSeq(s, 1, Len(s) - 1)

Node(path) == IF path[1] = SLASH THEN Components(path) ELSE Cwd \o Components(path)

TrailingSlash(path) == path # <<>> /\ path[Len(path)] = SLASH

\* what a path names: "dir", "file" or "none"
Kind(dirs, path) ==
    IF path = <<>> THEN "none"
    ELSE IF Node(path) \in dirs THEN "dir"
    ELSE IF Node(path) \in DOMAIN fs_files /\ ~TrailingSlash(path) THEN "file"
    ELSE "none"

\* mkdir(path, 0755): "ok", "eexist" (errno EEXIST) or "fail" (any other errno)
mkdir(dirs, path) ==
    IF path = <<>> THEN "fail"
    ELSE LET n == Node(path) IN
         IF n \in dirs \/ n \in DOMAIN fs_files THEN "eexist"
         ELSE IF Front(n) \notin dirs \/ n \in mkdirDenied THEN "fail"
         ELSE "ok"

RECURSIVE ensure_loop_keepgoing(_, _, _)
\* mutant of ensure_loop: the result of mkdir is not looked at
ensure_loop_keepgoing(dirs, path, i) ==
    IF i > Len(path) THEN [rc |-> 0, dirs |-> dirs, tried |-> <<>>]
    ELSE IF path[i] = SLASH
    THEN LET tmp == SubSeq(path, 1, i - 1)
             r == mkdir(dirs, tmp)
             rest == ensure_loop_keepgoing(IF r = "ok" THEN dirs \cup {Node(tmp)} ELSE dirs,
                                           path, i + 1)
         IN [rest EXCEPT !.tried = << tmp >> \o rest.tried]
    ELSE ensure_loop_keepgoing(dirs, path, i + 1)

\* the loop of ensure_parent_dirs from index i (1-based) on, over the
\* directories dirs: the return value, the directories afterwards and the
\* paths mkdir was called with
RECURSIVE ensure_loop(_, _, _)
ensure_loop(dirs, path, i) ==
    IF i > Len(path) THEN [rc |-> 0, dirs |-> dirs, tried |-> <<>>]
    ELSE IF path[i] = SLASH
    THEN LET tmp == SubSeq(path, 1, i - 1)
             r == mkdir(dirs, tmp)
         IN IF r = "fail" THEN [rc |-> -1, dirs |-> dirs, tried |-> << tmp >>]
            ELSE LET rest == ensure_loop(IF r = "ok" THEN dirs \cup {Node(tmp)} ELSE dirs,
                                         path, i + 1)
                 IN [rest EXCEPT !.tried = << tmp >> \o rest.tried]
    ELSE ensure_loop(dirs, path, i + 1)

\* mutant of ensure_parent_dirs: the slash is not restored after mkdir, so
\* every later mkdir names the first prefix again
ensure_parent_dirs_norestore(path) ==
    LET S == { j \in 2..Len(path) : path[j] = SLASH } IN
    IF S = {} THEN [rc |-> 0, dirs |-> fs_dirs, tried |-> <<>>]
    ELSE LET tmp == SubSeq(path, 1, (CHOOSE j \in S : \A k \in S : j <= k) - 1)
             r == mkdir(fs_dirs, tmp)
         IN IF r = "fail" THEN [rc |-> -1, dirs |-> fs_dirs, tried |-> << tmp >>]
            ELSE [rc |-> 0, dirs |-> IF r = "ok" THEN fs_dirs \cup {Node(tmp)} ELSE fs_dirs,
                  tried |-> [j \in 1..Cardinality(S) |-> tmp]]

\* mutant of ensure_parent_dirs: the final component is created as a
\* directory too, as mkdir -p on the whole path would
ensure_parent_dirs_whole(path) ==
    IF Len(path) >= TMP_SIZE THEN [rc |-> -1, dirs |-> fs_dirs, tried |-> <<>>]
    ELSE ensure_loop(fs_dirs, path \o << SLASH >>, 2)

\* ensure_parent_dirs(path): the return value, the directories afterwards
\* and the paths mkdir was called with
ensure_parent_dirs(path) ==
    IF Len(path) >= TMP_SIZE THEN [rc |-> -1, dirs |-> fs_dirs, tried |-> <<>>]
    ELSE ensure_loop(fs_dirs, path, 2)

\* fopen(path, "rb") succeeds on a regular file and on a directory (whose
\* reads then fail with EISDIR)
fopen_rb(path) == Kind(fs_dirs, path) # "none"

\* fopen(path, "wb") succeeds on a regular file, and on a missing file whose
\* parent directory exists
fopen_wb(path) ==
    /\ path # <<>>
    /\ ~TrailingSlash(path)
    /\ Node(path) \notin fs_dirs
    /\ Front(Node(path)) \in fs_dirs

\* mutant of fopen_wb_files: the file is opened without truncation ("ab")
fopen_wb_files_append(path) ==
    [n \in DOMAIN fs_files \cup {Node(path)} |->
        IF n \in DOMAIN fs_files THEN fs_files[n] ELSE <<>>]

\* the file contents fopen(path, "wb") leaves: truncate or create
fopen_wb_files(path) ==
    [n \in DOMAIN fs_files \cup {Node(path)} |-> IF n = Node(path) THEN <<>> ELSE fs_files[n]]

\* the names readdir enumerates for a directory node
Entries(n) ==
    {Dot, DotDot} \cup
    {m[Len(m)] : m \in {x \in fs_dirs \cup DOMAIN fs_files : Len(x) = Len(n) + 1 /\ Front(x) = n}}

NoFile == [open |-> FALSE, node |-> <<>>, pos |-> 0]

\* fread(buffer, 1, BUFFER_SIZE, f): the bytes read (none at end of file and
\* on a read error)
fread(h) ==
    IF h.node \in fs_dirs THEN <<>>
    ELSE SubSeq(fs_files[h.node], h.pos + 1, Min(h.pos + BUFFER_SIZE, Len(fs_files[h.node])))

\* ferror(f) after fread returned 0
ferror(h) == h.node \in fs_dirs

----------------------------------------------------------------------------
(* Inputs *)

Name_a == <<97>>                       \* user "a", home "/a"
Name_b == <<98>>                       \* user "b", home "/b"
Name_c == <<99>>                       \* "c": no such user
Home_a == <<47, 97>>
Home_b == <<47, 98>>
Home_e == <<47, 101>>                  \* a value of HOME, "/e"

AllUsers == [n \in {Name_a, Name_b} |-> IF n = Name_a THEN Home_a ELSE Home_b]

\* frames no reader accepts: end of stream, short header, zero length,
\* oversized length, short payload
BadWires == { <<>>, <<0, 0>>, htonl(0), htonl(MAX_FRAME_LEN + 1), htonl(2) \o <<97>> }

\* the usernames of the sessions; the last holds a NUL byte (the C string "c")
SessionNames == {Name_a, Name_c, <<99, 0, 97>>}

\* username frames
AuthWires == { Frame(u) : u \in clientNames } \cup BadWires

UnlockBytes == {0, 1, 2}

ModeBytes == {MODE_DOWNLOAD, MODE_UPLOAD, MODE_LIST, 88}

\* the raw paths clients send:  "~"  "~/a"  "~/a/b/a"  "~b/a"  "b"  "/a/"
SessionPaths ==
    { <<126>>, <<126, 47, 97>>, <<126, 47, 97, 47, 98, 47, 97>>, <<126, 98, 47, 97>>,
      <<98>>, <<47, 97, 47>> }

PathWires == { Frame(p) : p \in clientPaths } \cup BadWires

\* what one recv of the upload data phase returns: a chunk, <<>> on end of
\* stream, NULL on error
Chunks == { <<120>>, <<121>> }

\* the chunks the uploads sent among downloads and listings are made of
SessionChunks == { <<120>> }

\* the filesystem the server starts with: /, /w, /a, /e; /a/a = "xy"; /a/b = ""
InitDirs == { <<>>, Cwd, << <<97>> >>, << <<101>> >> }

InitFiles ==
    [n \in { << <<97>>, <<97>> >>, << <<97>>, <<98>> >> } |->
        IF n = << <<97>>, <<97>> >> THEN <<120, 121>> ELSE <<>>]

----------------------------------------------------------------------------
(* The accept loop, main.c *)

fsVars == << fs_dirs, fs_files >>

\* the state of the byte-level reading of one frame
\* no call of recv_exact or send_all under way
NoCall == [fn |-> "none", buf |-> <<>>, len |-> 0, total |-> 0, wire |-> <<>>,
           calls |-> 0, failed |-> FALSE, ret |-> 0]

frameVars == << peerBytes, stream, rxbuf, rxlen, rxresult, io >>

envVars == << passwd, envHome, clientModes, clientPaths, clientChunks, clientNames, frameVars,
             mkdirDenied, dataLimit >>

locals == << entered, ret, username, mode, requested_path, expanded_path, name_copy, f,
             dir, enumerated, received, oldContent, opened, sendOk, sig, tried, n_recv,
             path_live, uaf >>

Init ==
    /\ pc = "accept"
    /\ current_username = <<>>
    /\ passwd = AllUsers
    /\ envHome \in {NULL, Home_e}
    /\ fs_dirs = InitDirs
    /\ fs_files = InitFiles
    /\ out = <<>>
    /\ entered = FALSE
    /\ ret = 0
    /\ username = <<>>
    /\ mode = 0
    /\ requested_path = <<>>
    /\ expanded_path = <<>>
    /\ name_copy = <<>>
    /\ f = NoFile
    /\ dir = {}
    /\ enumerated = <<>>
    /\ received = <<>>
    /\ oldContent = NULL
    /\ opened = "no"
    /\ sendOk = TRUE
    /\ sig = -1
    /\ uploadsLeft = MaxUploads
    /\ clientModes = ModeBytes
    /\ clientPaths = SessionPaths
    /\ clientChunks = SessionChunks
    /\ clientNames = SessionNames
    /\ peerBytes = <<>>
    /\ stream = <<>>
    /\ rxbuf = <<>>
    /\ rxlen = 0
    /\ rxresult = NULL
    /\ io = NoCall
    /\ closes = 0
    /\ open_conns = IF pc = "accept" THEN 0 ELSE 1
    /\ tried = <<>>
    /\ mkdirDenied = {}
    /\ path_live = FALSE
    /\ uaf = FALSE
    /\ n_recv = 0
    /\ dataLimit = MaxChunks

\* mutant of Accept: a connection is also accepted while the session of
\* another waits for its username or mode byte
Accept_anytime ==
    /\ pc \in {"accept", "auth", "mode"}
    /\ pc' = "unlock"
    /\ out' = <<>>
    /\ entered' = FALSE
    /\ ret' = 0
    /\ username' = <<>>
    /\ mode' = 0
    /\ requested_path' = <<>>
    /\ expanded_path' = <<>>
    /\ name_copy' = <<>>
    /\ f' = NoFile
    /\ dir' = {}
    /\ enumerated' = <<>>
    /\ received' = <<>>
    /\ oldContent' = NULL
    /\ opened' = "no"
    /\ sendOk' = TRUE
    /\ sig' = -1
    /\ closes' = 0
    /\ open_conns' = open_conns + 1
    /\ tried' = <<>>
    /\ n_recv' = 0
    /\ path_live' = FALSE
    /\ uaf' = FALSE
    /\ UNCHANGED << current_username, envVars, fsVars, uploadsLeft >>

\* accept(): a new connection; the locals of the previous one are gone
Accept ==
    /\ pc = "accept"
    /\ pc' = "unlock"
    /\ out' = <<>>
    /\ entered' = FALSE
    /\ ret' = 0
    /\ username' = <<>>
    /\ mode' = 0
    /\ requested_path' = <<>>
    /\ expanded_path' = <<>>
    /\ name_copy' = <<>>
    /\ f' = NoFile
    /\ dir' = {}
    /\ enumerated' = <<>>
    /\ received' = <<>>
    /\ oldContent' = NULL
    /\ opened' = "no"
    /\ sendOk' = TRUE
    /\ sig' = -1
    /\ closes' = 0
    /\ open_conns' = open_conns + 1
    /\ tried' = <<>>
    /\ n_recv' = 0
    /\ path_live' = FALSE
    /\ uaf' = FALSE
    /\ UNCHANGED << current_username, envVars, fsVars, uploadsLeft >>

\* mutant of unlock_rejected: the received byte is not compared
unlock_rejected_nocompare(r) == r = -1

\* main.c:40, the test on the unlock recv; r is the byte received, -1 when n <= 0
unlock_rejected(r) == r = -1 \/ r # UNLOCK_SIGNAL

\* recv(client_fd, &sig, 1, MSG_WAITALL) and the unlock test
RecvUnlock ==
    /\ pc = "unlock"
    /\ \E r \in {-1} \cup UnlockBytes :
          /\ sig' = r
          /\ IF unlock_rejected(r)
             THEN pc' = "close" /\ entered' = FALSE
             ELSE pc' = "auth" /\ entered' = TRUE
    /\ UNCHANGED << opened, current_username, envVars, closes, open_conns, tried, n_recv, path_live, uaf, fsVars, out, ret, username, mode,
                    requested_path, expanded_path, name_copy, f, dir, enumerated,
                    received, oldContent, sendOk, uploadsLeft >>

\* mutant of Close: after a successful operation the connection is kept and
\* the next mode byte awaited
Close_keepalive ==
    /\ pc = "close"
    /\ pc' = IF entered /\ ret = 0 THEN "mode" ELSE "accept"
    /\ closes' = closes + 1
    /\ open_conns' = open_conns - 1
    /\ UNCHANGED << current_username, envVars, fsVars, out, locals, uploadsLeft >>

\* mutant of Close: a failed session ends the accept loop
Close_stoponfailure ==
    /\ pc = "close"
    /\ pc' = IF entered /\ ret # 0 THEN "stopped" ELSE "accept"
    /\ closes' = closes + 1
    /\ open_conns' = open_conns - 1
    /\ UNCHANGED << current_username, envVars, fsVars, out, locals, uploadsLeft >>

\* close(client_fd), back to accept
Close ==
    /\ pc = "close"
    /\ pc' = "accept"
    /\ closes' = closes + 1
    /\ open_conns' = open_conns - 1
    /\ UNCHANGED << current_username, envVars, fsVars, out, locals, uploadsLeft >>

----------------------------------------------------------------------------
(* handle_unlocked_session *)

\* mutant of store_username: the hint is set once and kept by later sessions
store_username_once(u) ==
    IF current_username = <<>> THEN strncpy(u, USERNAME_SIZE - 1) ELSE current_username

\* mutant of store_username: the whole username is stored, whatever its length
store_username_whole(u) == u

\* session.c:944-945: what the session stores as the username hint
store_username(u) == strncpy(u, USERNAME_SIZE - 1)

RecvUsername ==
    /\ pc = "auth"
    /\ \E wire \in AuthWires :
          LET u == recv_path_alloc(wire) IN
          IF u = NULL
          THEN /\ username' = NULL
               /\ ret' = -1
               /\ pc' = "close"
               /\ UNCHANGED current_username
          ELSE /\ username' = u
               /\ current_username' = store_username(u)
               /\ pc' = "mode"
               /\ UNCHANGED ret
    /\ UNCHANGED << opened, envVars, closes, open_conns, tried, n_recv, path_live, uaf, fsVars, out, entered, mode, requested_path, expanded_path,
                    name_copy, f, dir, enumerated, received, oldContent, sendOk, sig,
                    uploadsLeft >>

\* mutant of dispatch: every byte other than 'D' and 'U' selects the listing
dispatch_defaultlist(m) ==
    IF m = MODE_DOWNLOAD THEN "d_recv"
    ELSE IF m = MODE_UPLOAD THEN "u_recv"
    ELSE "l_recv"

\* session.c:958-967: where a mode byte dispatches to
dispatch(m) ==
    IF m = MODE_DOWNLOAD THEN "d_recv"
    ELSE IF m = MODE_UPLOAD THEN "u_recv"
    ELSE IF m = MODE_LIST THEN "l_recv"
    ELSE "close"

\* recv_exact(client_fd, &mode, 1) and the dispatch; r = -1 when n <= 0
RecvMode ==
    /\ pc = "mode"
    /\ \E r \in {-1} \cup clientModes :
          /\ r = MODE_UPLOAD => uploadsLeft > 0
          /\ IF r = -1
             THEN ret' = -1 /\ pc' = "close" /\ UNCHANGED << mode, uploadsLeft >>
             ELSE /\ mode' = r
                  /\ pc' = dispatch(r)
                  /\ ret' = IF dispatch(r) = "close" THEN -1 ELSE ret
                  /\ uploadsLeft' = IF r = MODE_UPLOAD THEN uploadsLeft - 1 ELSE uploadsLeft
    /\ UNCHANGED << opened, current_username, envVars, closes, open_conns, tried, n_recv, path_live, uaf, fsVars, out, entered, username,
                    requested_path, expanded_path, name_copy, f, dir, enumerated,
                    received, oldContent, sendOk, sig >>

----------------------------------------------------------------------------
(* handle_download *)

\* recv_path_alloc, expand_tilde, path_basename and the copy into name_copy
DownloadRecvPath ==
    /\ pc = "d_recv"
    /\ \E wire \in PathWires :
          LET p == recv_path_alloc(wire)
              e == expand_tilde(p)
              name == path_basename(e)
          IN IF p = NULL
             THEN /\ requested_path' = NULL
                  /\ ret' = -1
                  /\ pc' = "close"
                  /\ UNCHANGED << expanded_path, name_copy, path_live >>
             ELSE /\ requested_path' = p
                  /\ expanded_path' = e
                  /\ path_live' = (Len(name) < NAME_COPY_SIZE)
                  /\ IF Len(name) >= NAME_COPY_SIZE
                     THEN pc' = "d_err" /\ UNCHANGED name_copy
                     ELSE pc' = "d_open" /\ name_copy' = name
                  /\ UNCHANGED ret
    /\ UNCHANGED << opened, current_username, envVars, closes, open_conns, tried, n_recv, uaf, fsVars, out, entered, username, mode, f,
                    dir, enumerated, received, oldContent, sendOk, sig,
                    uploadsLeft >>

\* fopen(expanded_path, "rb")
DownloadOpen ==
    /\ pc = "d_open"
    /\ IF fopen_rb(expanded_path)
       THEN /\ f' = [open |-> TRUE, node |-> Node(expanded_path), pos |-> 0]
            /\ opened' = "ok"
            /\ pc' = "d_ok"
       ELSE /\ opened' = "fail"
            /\ pc' = "d_err"
            /\ UNCHANGED f
    /\ uaf' = (uaf \/ ~path_live)
    /\ path_live' = (path_live /\ ~fopen_rb(expanded_path))
    /\ UNCHANGED << current_username, envVars, closes, open_conns, tried, n_recv, fsVars, out, entered, ret, username, mode,
                    requested_path, expanded_path, name_copy, dir, enumerated, received,
                    oldContent, sendOk, sig,
                    uploadsLeft >>

\* mutant of DownloadSendError: the return after the send is missing
DownloadSendError_fallthrough ==
    /\ pc = "d_err"
    /\ \E k \in 0..1 :
          /\ out' = out \o Take(<< STATUS_ERROR >>, k)
          /\ sendOk' = (sendOk /\ k = 1)
    /\ pc' = "d_ok"
    /\ path_live' = FALSE
    /\ UNCHANGED << opened, current_username, envVars, closes, open_conns, tried, n_recv, uaf, fsVars, entered, ret, username,
                    mode, requested_path, expanded_path, name_copy, f, dir, enumerated,
                    received, oldContent, sig, uploadsLeft >>

\* send_all(client_fd, &status, 1) with STATUS_ERROR, then return -1
DownloadSendError ==
    /\ pc = "d_err"
    /\ \E k \in 0..1 :
          /\ out' = out \o Take(<< STATUS_ERROR >>, k)
          /\ sendOk' = (sendOk /\ k = 1)
    /\ ret' = -1
    /\ pc' = "close"
    /\ path_live' = FALSE
    /\ UNCHANGED << opened, current_username, envVars, closes, open_conns, tried, n_recv, uaf, fsVars, entered, username, mode,
                    requested_path, expanded_path, name_copy, f, dir, enumerated,
                    received, oldContent, sig, uploadsLeft >>

\* one checked send of the download: continue at next when send_all > 0,
\* else fclose(f) and return -1
DownloadSend(buf, next) ==
    /\ \E k \in 0..Len(buf) :
          /\ out' = out \o Take(buf, k)
          /\ sendOk' = (sendOk /\ k = Len(buf))
          /\ IF send_all(buf, k) <= 0
             THEN /\ f' = NoFile
                  /\ ret' = -1
                  /\ pc' = "close"
             ELSE /\ pc' = next
                  /\ UNCHANGED << f, ret >>
    /\ UNCHANGED << opened, current_username, envVars, closes, open_conns, tried, n_recv, path_live, uaf, fsVars, entered, username, mode,
                    requested_path, expanded_path, name_copy, dir, enumerated, received,
                    oldContent, sig, uploadsLeft >>

DownloadSendOk == pc = "d_ok" /\ DownloadSend(<< STATUS_OK >>, "d_namelen")

DownloadSendNameLen == pc = "d_namelen" /\ DownloadSend(htonl(Len(name_copy)), "d_name")

\* mutant of name_copy_read: the name is read through the pointer into the
\* buffer of expanded_path, whose bytes are anything once it is freed
name_read_dangling ==
    IF path_live THEN { path_basename(expanded_path) }
    ELSE [1..Len(name_copy) -> {63, 97}]

\* what send_all(client_fd, name_copy, name_len) reads: the stack copy
name_copy_read == { name_copy }

DownloadSendName == pc = "d_name" /\ \E b \in name_copy_read : DownloadSend(b, "d_loop")

\* mutant of DownloadChunk: a read error is reported with an ERROR status
DownloadChunk_errorstatus ==
    /\ pc = "d_loop"
    /\ LET buffer == fread(f) IN
       IF Len(buffer) > 0
       THEN \E k \in 0..Len(buffer) :
               /\ out' = out \o Take(buffer, k)
               /\ IF send_all(buffer, k) <= 0
                  THEN /\ sendOk' = FALSE
                       /\ f' = NoFile
                       /\ ret' = -1
                       /\ pc' = "close"
                  ELSE /\ f' = [f EXCEPT !.pos = f.pos + Len(buffer)]
                       /\ pc' = "d_loop"
                       /\ UNCHANGED << sendOk, ret >>
       ELSE /\ ret' = IF ferror(f) THEN -1 ELSE 0
            /\ f' = NoFile
            /\ pc' = IF ferror(f) THEN "d_err" ELSE "close"
            /\ UNCHANGED << out, sendOk >>
    /\ UNCHANGED << opened, current_username, envVars, closes, open_conns, tried, n_recv, path_live, uaf, fsVars, entered, username, mode,
                    requested_path, expanded_path, name_copy, dir, enumerated, received,
                    oldContent, sig, uploadsLeft >>

\* mutant of DownloadChunk: a read of no bytes without a read error is
\* retried instead of ending the loop
DownloadChunk_noeof ==
    /\ pc = "d_loop"
    /\ LET buffer == fread(f) IN
       IF Len(buffer) > 0
       THEN \E k \in 0..Len(buffer) :
               /\ out' = out \o Take(buffer, k)
               /\ IF send_all(buffer, k) <= 0
                  THEN /\ sendOk' = FALSE
                       /\ f' = NoFile
                       /\ ret' = -1
                       /\ pc' = "close"
                  ELSE /\ f' = [f EXCEPT !.pos = f.pos + Len(buffer)]
                       /\ pc' = "d_loop"
                       /\ UNCHANGED << sendOk, ret >>
       ELSE IF ferror(f)
       THEN /\ ret' = -1
            /\ f' = NoFile
            /\ pc' = "close"
            /\ UNCHANGED << out, sendOk >>
       ELSE UNCHANGED << ret, f, pc, out, sendOk >>
    /\ UNCHANGED << opened, current_username, envVars, closes, open_conns, tried, n_recv, path_live, uaf, fsVars, entered, username, mode,
                    requested_path, expanded_path, name_copy, dir, enumerated, received,
                    oldContent, sig, uploadsLeft >>

\* one turn of the fread/send_all loop, and what follows the loop
DownloadChunk ==
    /\ pc = "d_loop"
    /\ LET buffer == fread(f) IN
       IF Len(buffer) > 0
       THEN \E k \in 0..Len(buffer) :
               /\ out' = out \o Take(buffer, k)
               /\ IF send_all(buffer, k) <= 0
                  THEN /\ sendOk' = FALSE
                       /\ f' = NoFile
                       /\ ret' = -1
                       /\ pc' = "close"
                  ELSE /\ f' = [f EXCEPT !.pos = f.pos + Len(buffer)]
                       /\ pc' = "d_loop"
                       /\ UNCHANGED << sendOk, ret >>
       ELSE /\ ret' = IF ferror(f) THEN -1 ELSE 0
            /\ f' = NoFile
            /\ pc' = "close"
            /\ UNCHANGED << out, sendOk >>
    /\ UNCHANGED << opened, current_username, envVars, closes, open_conns, tried, n_recv, path_live, uaf, fsVars, entered, username, mode,
                    requested_path, expanded_path, name_copy, dir, enumerated, received,
                    oldContent, sig, uploadsLeft >>

----------------------------------------------------------------------------
(* handle_upload *)

\* recv_path_alloc and expand_tilde
UploadRecvPath ==
    /\ pc = "u_recv"
    /\ \E wire \in PathWires :
          LET p == recv_path_alloc(wire) IN
          IF p = NULL
          THEN /\ requested_path' = NULL
               /\ ret' = -1
               /\ pc' = "close"
               /\ UNCHANGED << expanded_path, path_live >>
          ELSE /\ requested_path' = p
               /\ expanded_path' = expand_tilde(p)
               /\ path_live' = TRUE
               /\ pc' = "u_mkdirs"
               /\ UNCHANGED ret
    /\ UNCHANGED << opened, current_username, envVars, closes, open_conns, tried, n_recv, uaf, fsVars, out, entered, username, mode,
                    name_copy, f, dir, enumerated, received, oldContent, sendOk, sig,
                    uploadsLeft >>

\* ensure_parent_dirs(expanded_path); on failure return -1 with no status byte
UploadEnsureDirs ==
    /\ pc = "u_mkdirs"
    /\ LET r == ensure_parent_dirs(expanded_path) IN
       /\ fs_dirs' = r.dirs
       /\ tried' = r.tried
       /\ IF r.rc # 0
          THEN ret' = -1 /\ pc' = "close"
          ELSE pc' = "u_open" /\ UNCHANGED ret
    /\ uaf' = (uaf \/ ~path_live)
    /\ path_live' = (path_live /\ ensure_parent_dirs(expanded_path).rc = 0)
    /\ UNCHANGED << opened, current_username, envVars, closes, open_conns, n_recv, fs_files, out, entered, username, mode,
                    requested_path, expanded_path, name_copy, f, dir, enumerated,
                    received, oldContent, sendOk, sig,
                    uploadsLeft >>

\* fopen(expanded_path, "wb")
UploadOpen ==
    /\ pc = "u_open"
    /\ oldContent' = IF Kind(fs_dirs, expanded_path) = "file"
                     THEN fs_files[Node(expanded_path)] ELSE NULL
    /\ IF fopen_wb(expanded_path)
       THEN /\ fs_files' = fopen_wb_files(expanded_path)
            /\ f' = [open |-> TRUE, node |-> Node(expanded_path), pos |-> 0]
            /\ opened' = "ok"
            /\ pc' = "u_ok"
       ELSE /\ opened' = "fail"
            /\ pc' = "u_err"
            /\ UNCHANGED << fs_files, f >>
    /\ uaf' = (uaf \/ ~path_live)
    /\ UNCHANGED << current_username, envVars, closes, open_conns, tried, n_recv, path_live, fs_dirs, out, entered, ret, username, mode,
                    requested_path, expanded_path, name_copy, dir, enumerated, received,
                    sendOk, sig,
                    uploadsLeft >>

\* mutant of UploadSendError: the return after the send is missing
UploadSendError_fallthrough ==
    /\ pc = "u_err"
    /\ \E k \in 0..1 :
          /\ out' = out \o Take(<< STATUS_ERROR >>, k)
          /\ sendOk' = (sendOk /\ k = 1)
    /\ pc' = "u_ok"
    /\ path_live' = FALSE
    /\ UNCHANGED << opened, current_username, envVars, closes, open_conns, tried, n_recv, uaf, fsVars, entered, ret, username,
                    mode, requested_path, expanded_path, name_copy, f, dir, enumerated,
                    received, oldContent, sig, uploadsLeft >>

\* send_all(client_fd, &status, 1) with STATUS_ERROR, then return -1
UploadSendError ==
    /\ pc = "u_err"
    /\ \E k \in 0..1 :
          /\ out' = out \o Take(<< STATUS_ERROR >>, k)
          /\ sendOk' = (sendOk /\ k = 1)
    /\ ret' = -1
    /\ pc' = "close"
    /\ path_live' = FALSE
    /\ UNCHANGED << opened, current_username, envVars, closes, open_conns, tried, n_recv, uaf, fsVars, entered, username, mode,
                    requested_path, expanded_path, name_copy, f, dir, enumerated,
                    received, oldContent, sig, uploadsLeft >>

\* send_all(client_fd, &status, 1) with STATUS_OK; the result is not tested
UploadSendOk ==
    /\ pc = "u_ok"
    /\ \E k \in 0..1 :
          /\ out' = out \o Take(<< STATUS_OK >>, k)
          /\ sendOk' = (sendOk /\ k = 1)
    /\ pc' = "u_loop"
    /\ path_live' = FALSE
    /\ UNCHANGED << opened, current_username, envVars, closes, open_conns, tried, n_recv, uaf, fsVars, entered, ret, username, mode,
                    requested_path, expanded_path, name_copy, f, dir, enumerated,
                    received, oldContent, sig, uploadsLeft >>

\* mutant of fwrite: the bytes are written at the start of the file
fwrite_prepend(h, buffer, w) ==
    [fs_files EXCEPT ![h.node] = Take(buffer, w) \o fs_files[h.node]]

\* fwrite(buffer, 1, n, f) writing w of the n bytes of buffer
fwrite(h, buffer, w) ==
    [fs_files EXCEPT ![h.node] = fs_files[h.node] \o Take(buffer, w)]

\* mutant of UploadChunk: a receive error puts the previous contents of
\* the target back
UploadChunk_rollback ==
    /\ pc = "u_loop"
    /\ \E r \in clientChunks \cup { <<>>, NULL } :
          IF r = NULL
          THEN \* n < 0
               /\ n_recv' = -1
               /\ ret' = -1
               /\ f' = NoFile
               /\ pc' = "close"
               /\ fs_files' = [fs_files EXCEPT ![f.node] =
                                  IF oldContent = NULL THEN <<>> ELSE oldContent]
               /\ UNCHANGED received
          ELSE IF r = <<>>
          THEN \* n = 0, the client closed its write side
               /\ n_recv' = 0
               /\ ret' = 0
               /\ f' = NoFile
               /\ pc' = "close"
               /\ UNCHANGED << fs_files, received >>
          ELSE /\ Len(received) + Len(r) <= dataLimit
               /\ n_recv' = Len(r)
               /\ received' = received \o r
               /\ \E w \in 0..Len(r) :
                     /\ fs_files' = fwrite(f, r, w)
                     /\ IF w # Len(r)
                        THEN ret' = -1 /\ f' = NoFile /\ pc' = "close"
                        ELSE pc' = "u_loop" /\ UNCHANGED << ret, f >>
    /\ UNCHANGED << opened, current_username, envVars, closes, open_conns, tried, path_live, uaf, fs_dirs, out, entered, username, mode,
                    requested_path, expanded_path, name_copy, dir, enumerated,
                    oldContent, sendOk, sig,
                    uploadsLeft >>

\* one turn of the recv/fwrite loop, and what follows the loop
UploadChunk ==
    /\ pc = "u_loop"
    /\ \E r \in clientChunks \cup { <<>>, NULL } :
          IF r = NULL
          THEN \* n < 0
               /\ n_recv' = -1
               /\ ret' = -1
               /\ f' = NoFile
               /\ pc' = "close"
               /\ UNCHANGED << fs_files, received >>
          ELSE IF r = <<>>
          THEN \* n = 0, the client closed its write side
               /\ n_recv' = 0
               /\ ret' = 0
               /\ f' = NoFile
               /\ pc' = "close"
               /\ UNCHANGED << fs_files, received >>
          ELSE /\ Len(received) + Len(r) <= dataLimit
               /\ n_recv' = Len(r)
               /\ received' = received \o r
               /\ \E w \in 0..Len(r) :
                     /\ fs_files' = fwrite(f, r, w)
                     /\ IF w # Len(r)
                        THEN ret' = -1 /\ f' = NoFile /\ pc' = "close"
                        ELSE pc' = "u_loop" /\ UNCHANGED << ret, f >>
    /\ UNCHANGED << opened, current_username, envVars, closes, open_conns, tried, path_live, uaf, fs_dirs, out, entered, username, mode,
                    requested_path, expanded_path, name_copy, dir, enumerated,
                    oldContent, sendOk, sig,
                    uploadsLeft >>

----------------------------------------------------------------------------
(* handle_list *)

\* recv_path_alloc and expand_tilde; a missing path frame sends STATUS_ERROR
ListRecvPath ==
    /\ pc = "l_recv"
    /\ \E wire \in PathWires :
          LET p == recv_path_alloc(wire) IN
          IF p = NULL
          THEN /\ requested_path' = NULL
               /\ pc' = "l_err"
               /\ UNCHANGED << expanded_path, path_live >>
          ELSE /\ requested_path' = p
               /\ expanded_path' = expand_tilde(p)
               /\ path_live' = TRUE
               /\ pc' = "l_open"
    /\ UNCHANGED << opened, current_username, envVars, closes, open_conns, tried, n_recv, uaf, fsVars, out, entered, ret, username, mode,
                    name_copy, f, dir, enumerated, received, oldContent, sendOk, sig,
                    uploadsLeft >>

\* opendir(expanded_path)
ListOpen ==
    /\ pc = "l_open"
    /\ IF Kind(fs_dirs, expanded_path) = "dir"
       THEN /\ dir' = Entries(Node(expanded_path))
            /\ opened' = "ok"
            /\ pc' = "l_ok"
       ELSE /\ opened' = "fail"
            /\ pc' = "l_err"
            /\ UNCHANGED dir
    /\ uaf' = (uaf \/ ~path_live)
    /\ path_live' = (path_live /\ Kind(fs_dirs, expanded_path) # "dir")
    /\ UNCHANGED << current_username, envVars, closes, open_conns, tried, n_recv, fsVars, out, entered, ret, username, mode,
                    requested_path, expanded_path, name_copy, f, enumerated, received,
                    oldContent, sendOk, sig,
                    uploadsLeft >>

\* send_all(client_fd, &status, 1) with STATUS_ERROR, then return -1
ListSendError ==
    /\ pc = "l_err"
    /\ \E k \in 0..1 :
          /\ out' = out \o Take(<< STATUS_ERROR >>, k)
          /\ sendOk' = (sendOk /\ k = 1)
    /\ ret' = -1
    /\ pc' = "close"
    /\ path_live' = FALSE
    /\ UNCHANGED << opened, current_username, envVars, closes, open_conns, tried, n_recv, uaf, fsVars, entered, username, mode,
                    requested_path, expanded_path, name_copy, f, dir, enumerated,
                    received, oldContent, sig, uploadsLeft >>

\* send_all(client_fd, &status, 1) with STATUS_OK
ListSendOk ==
    /\ pc = "l_ok"
    /\ \E k \in 0..1 :
          /\ out' = out \o Take(<< STATUS_OK >>, k)
          /\ IF send_all(<< STATUS_OK >>, k) <= 0
             THEN sendOk' = FALSE /\ dir' = {} /\ ret' = -1 /\ pc' = "close"
             ELSE pc' = "l_loop" /\ UNCHANGED << sendOk, dir, ret >>
    /\ UNCHANGED << opened, current_username, envVars, closes, open_conns, tried, n_recv, path_live, uaf, fsVars, entered, username, mode,
                    requested_path, expanded_path, name_copy, f, enumerated, received,
                    oldContent, sig, uploadsLeft >>

\* mutant of skipped: ".." is not skipped
skipped_onlydot(name) == name = Dot

\* session.c:888-890: the entries the listing skips
skipped(name) == name = Dot \/ name = DotDot

\* one turn of the readdir loop: the filesystem hands out any entry not yet
\* enumerated; the entry is sent as its length and its name
ListEntry ==
    /\ pc = "l_loop"
    /\ dir # {}
    /\ \E e \in dir :
          /\ enumerated' = Append(enumerated, e)
          /\ IF skipped(e)
             THEN /\ dir' = dir \ {e}
                  /\ pc' = "l_loop"
                  /\ UNCHANGED << out, sendOk, ret >>
             ELSE \E k \in 0..(4 + Len(e)) :
                     /\ out' = out \o Take(htonl(Len(e)) \o e, k)
                     /\ IF k < 4 + Len(e)
                        THEN sendOk' = FALSE /\ dir' = {} /\ ret' = -1 /\ pc' = "close"
                        ELSE /\ dir' = dir \ {e}
                             /\ pc' = "l_loop"
                             /\ UNCHANGED << sendOk, ret >>
    /\ UNCHANGED << opened, current_username, envVars, closes, open_conns, tried, n_recv, path_live, uaf, fsVars, entered, username, mode,
                    requested_path, expanded_path, name_copy, f, received, oldContent,
                    sig, uploadsLeft >>

\* readdir returned NULL: send the zero-length frame (result not tested),
\* closedir, return 0
ListSendEnd ==
    /\ pc = "l_loop"
    /\ dir = {}
    /\ \E k \in 0..4 :
          /\ out' = out \o Take(htonl(0), k)
          /\ sendOk' = (sendOk /\ k = 4)
    /\ ret' = 0
    /\ pc' = "close"
    /\ UNCHANGED << opened, current_username, envVars, closes, open_conns, tried, n_recv, path_live, uaf, fsVars, entered, username, mode,
                    requested_path, expanded_path, name_copy, f, dir, enumerated,
                    received, oldContent, sig, uploadsLeft >>

----------------------------------------------------------------------------

Next ==
    \/ Accept
    \/ RecvUnlock
    \/ Close
    \/ RecvUsername
    \/ RecvMode
    \/ DownloadRecvPath
    \/ DownloadOpen
    \/ DownloadSendError
    \/ DownloadSendOk
    \/ DownloadSendNameLen
    \/ DownloadSendName
    \/ DownloadChunk
    \/ UploadRecvPath
    \/ UploadEnsureDirs
    \/ UploadOpen
    \/ UploadSendError
    \/ UploadSendOk
    \/ UploadChunk
    \/ ListRecvPath
    \/ ListOpen
    \/ ListSendError
    \/ ListSendOk
    \/ ListEntry
    \/ ListSendEnd

Spec == Init /\ [][Next]_vars

\* close(client_fd) and the jump back to the head of the accept loop do not
\* block: once the session function has returned they are carried out
SpecLive == Init /\ [][Next]_vars /\ WF_vars(Close)

\* every step of the server on an accepted connection
SessionStep ==
    \/ RecvUnlock
    \/ Close
    \/ RecvUsername
    \/ RecvMode
    \/ DownloadRecvPath
    \/ DownloadOpen
    \/ DownloadSendError
    \/ DownloadSendOk
    \/ DownloadSendNameLen
    \/ DownloadSendName
    \/ DownloadChunk
    \/ UploadRecvPath
    \/ UploadEnsureDirs
    \/ UploadOpen
    \/ UploadSendError
    \/ UploadSendOk
    \/ UploadChunk
    \/ ListRecvPath
    \/ ListOpen
    \/ ListSendError
    \/ ListSendOk
    \/ ListEntry
    \/ ListSendEnd

\* the raw paths of the clients of SpecReturn:  "~"  "~/a"  "~b/a"
ReturnPaths == { <<126>>, <<126, 47, 97>>, <<126, 98, 47, 97>> }

InitReturn ==
    /\ pc = "accept"
    /\ current_username = <<>>
    /\ passwd = AllUsers
    /\ envHome = Home_e
    /\ fs_dirs = InitDirs
    /\ fs_files = InitFiles
    /\ out = <<>>
    /\ entered = FALSE
    /\ ret = 0
    /\ username = <<>>
    /\ mode = 0
    /\ requested_path = <<>>
    /\ expanded_path = <<>>
    /\ name_copy = <<>>
    /\ f = NoFile
    /\ dir = {}
    /\ enumerated = <<>>
    /\ received = <<>>
    /\ oldContent = NULL
    /\ opened = "no"
    /\ sendOk = TRUE
    /\ sig = -1
    /\ uploadsLeft = MaxUploads
    /\ clientModes = ModeBytes
    /\ clientPaths = ReturnPaths
    /\ clientChunks = SessionChunks
    /\ clientNames = {Name_a}
    /\ peerBytes = <<>>
    /\ stream = <<>>
    /\ rxbuf = <<>>
    /\ rxlen = 0
    /\ rxresult = NULL
    /\ io = NoCall
    /\ closes = 0
    /\ open_conns = IF pc = "accept" THEN 0 ELSE 1
    /\ tried = <<>>
    /\ mkdirDenied = {}
    /\ path_live = FALSE
    /\ uaf = FALSE
    /\ n_recv = 0
    /\ dataLimit = MaxChunks

\* every blocking recv and send of a session returns in the end (with data,
\* with the peer's close or with an error), and the file, directory and
\* memory operations between them do not block; no client has to connect
SpecReturn == InitReturn /\ [][Next]_vars /\ WF_vars(SessionStep)

----------------------------------------------------------------------------
(* SpecReupload: clients that only upload, to few paths, several times over *)

ReuploadPaths == { <<126>>, <<126, 47, 97>>, <<98>> }      \* "~"  "~/a"  "b"

InitReupload ==
    /\ pc = "accept"
    /\ current_username = <<>>
    /\ passwd = AllUsers
    /\ envHome = Home_e
    /\ fs_dirs = InitDirs
    /\ fs_files = InitFiles
    /\ out = <<>>
    /\ entered = FALSE
    /\ ret = 0
    /\ username = <<>>
    /\ mode = 0
    /\ requested_path = <<>>
    /\ expanded_path = <<>>
    /\ name_copy = <<>>
    /\ f = NoFile
    /\ dir = {}
    /\ enumerated = <<>>
    /\ received = <<>>
    /\ oldContent = NULL
    /\ opened = "no"
    /\ sendOk = TRUE
    /\ sig = -1
    /\ uploadsLeft = MaxReuploads
    /\ clientModes = {MODE_UPLOAD}
    /\ clientPaths = ReuploadPaths
    /\ clientChunks = Chunks
    /\ clientNames = SessionNames
    /\ peerBytes = <<>>
    /\ stream = <<>>
    /\ rxbuf = <<>>
    /\ rxlen = 0
    /\ rxresult = NULL
    /\ io = NoCall
    /\ closes = 0
    /\ open_conns = IF pc = "accept" THEN 0 ELSE 1
    /\ tried = <<>>
    /\ mkdirDenied = {}
    /\ path_live = FALSE
    /\ uaf = FALSE
    /\ n_recv = 0
    /\ dataLimit = MaxChunks

NextUpload ==
    \/ Accept
    \/ RecvUnlock
    \/ Close
    \/ RecvUsername
    \/ RecvMode
    \/ UploadRecvPath
    \/ UploadEnsureDirs
    \/ UploadOpen
    \/ UploadSendError
    \/ UploadSendOk
    \/ UploadChunk

SpecReupload == InitReupload /\ [][NextUpload]_vars

----------------------------------------------------------------------------
(* SpecData: one upload whose data phase receives up to MaxDataBytes bytes *)
(* in chunks of one and of two bytes                                        *)

DataChunks == { <<120>>, <<121, 122>> }

InitData ==
    /\ pc = "accept"
    /\ current_username = <<>>
    /\ passwd = AllUsers
    /\ envHome = Home_e
    /\ fs_dirs = InitDirs
    /\ fs_files = InitFiles
    /\ out = <<>>
    /\ entered = FALSE
    /\ ret = 0
    /\ username = <<>>
    /\ mode = 0
    /\ requested_path = <<>>
    /\ expanded_path = <<>>
    /\ name_copy = <<>>
    /\ f = NoFile
    /\ dir = {}
    /\ enumerated = <<>>
    /\ received = <<>>
    /\ oldContent = NULL
    /\ opened = "no"
    /\ sendOk = TRUE
    /\ sig = -1
    /\ uploadsLeft = 1
    /\ clientModes = {MODE_UPLOAD}
    /\ clientPaths = ReuploadPaths
    /\ clientChunks = DataChunks
    /\ clientNames = {Name_a}
    /\ peerBytes = <<>>
    /\ stream = <<>>
    /\ rxbuf = <<>>
    /\ rxlen = 0
    /\ rxresult = NULL
    /\ io = NoCall
    /\ closes = 0
    /\ open_conns = IF pc = "accept" THEN 0 ELSE 1
    /\ tried = <<>>
    /\ mkdirDenied = {}
    /\ path_live = FALSE
    /\ uaf = FALSE
    /\ n_recv = 0
    /\ dataLimit = MaxDataBytes

SpecData == InitData /\ [][NextUpload]_vars

----------------------------------------------------------------------------
(* SpecResolve: expand_tilde applied to every raw path up to MaxRawLen over *)
(* the bytes ~ / a b, under every hint, user database and HOME value        *)

RawChars == {TILDE, SLASH, 97, 98}

RawStrings == UNION { [1..k -> RawChars] : k \in 0..MaxRawLen }

ResolveHints == { <<>>, Name_a, Name_b, Name_c }

PasswdDBs == { [n \in S |-> AllUsers[n]] : S \in SUBSET {Name_a, Name_b} }

HomeValues == { NULL, Home_e, <<>> }

InitResolve ==
    /\ pc = "resolve"
    /\ current_username \in ResolveHints
    /\ passwd \in PasswdDBs
    /\ envHome \in HomeValues
    /\ requested_path \in RawStrings
    /\ fs_dirs = InitDirs
    /\ fs_files = InitFiles
    /\ out = <<>>
    /\ entered = FALSE
    /\ ret = 0
    /\ username = <<>>
    /\ mode = 0
    /\ expanded_path = <<>>
    /\ name_copy = <<>>
    /\ f = NoFile
    /\ dir = {}
    /\ enumerated = <<>>
    /\ received = <<>>
    /\ oldContent = NULL
    /\ opened = "no"
    /\ sendOk = TRUE
    /\ sig = -1
    /\ uploadsLeft = 0
    /\ clientModes = {}
    /\ clientPaths = {}
    /\ clientChunks = {}
    /\ clientNames = {}
    /\ peerBytes = <<>>
    /\ stream = <<>>
    /\ rxbuf = <<>>
    /\ rxlen = 0
    /\ rxresult = NULL
    /\ io = NoCall
    /\ closes = 0
    /\ open_conns = IF pc = "accept" THEN 0 ELSE 1
    /\ tried = <<>>
    /\ mkdirDenied = {}
    /\ path_live = FALSE
    /\ uaf = FALSE
    /\ n_recv = 0
    /\ dataLimit = MaxChunks

\* char *expanded_path = expand_tilde(requested_path)
Resolve ==
    /\ pc = "resolve"
    /\ expanded_path' = expand_tilde(requested_path)
    /\ pc' = "resolved"
    /\ UNCHANGED << current_username, envVars, closes, open_conns, tried, n_recv, path_live, uaf, fsVars, out, entered, ret, username, mode,
                    requested_path, name_copy, f, dir, enumerated, received, oldContent,
                    opened, sendOk, sig, uploadsLeft >>

NextResolve == Resolve

SpecResolve == InitResolve /\ [][NextResolve]_vars

----------------------------------------------------------------------------
(* Reading one frame, one recv call at a time *)

FrameChars == {NUL, 97, 255}

ShortPayloads == UNION { [1..k -> FrameChars] : k \in 1..MaxFrameBytes }

\* a payload of n bytes without a NUL
LongPayload(n) == [i \in 1..n |-> 97 + (i % 3)]

FramePayloads ==
    ShortPayloads \cup { LongPayload(MAX_FRAME_LEN - 1), LongPayload(MAX_FRAME_LEN) }

\* headers recv_path_alloc rejects, each followed by payload bytes
BadHeaderStreams ==
    { htonl(0) \o <<97>>,
      htonl(MAX_FRAME_LEN + 1) \o LongPayload(MAX_FRAME_LEN + 1),
      <<0, 1, 0, 0>> \o <<97, 98>>,
      <<127, 255, 255, 255>> \o <<97>> }

\* what a peer sends before it closes: a whole frame, a whole frame and
\* more, a frame cut short, a rejected header with bytes after it
FrameStreams ==
    { Frame(b) : b \in FramePayloads }
    \cup { Frame(b) \o <<98>> : b \in FramePayloads }
    \cup { Take(Frame(b), k) : b \in ShortPayloads, k \in 0..(3 + MaxFrameBytes) }
    \cup { Take(Frame(LongPayload(MAX_FRAME_LEN)), 4 + MAX_FRAME_LEN - 1) }
    \cup BadHeaderStreams

\* the values one recv(fd, p + total, room, 0) can return when avail bytes
\* are still to arrive: 0 or -1 once the peer is gone, else a byte count
recv(avail, room) ==
    IF avail = 0 THEN {0, -1}
    ELSE { n \in 1..Min(avail, room) : n <= MaxRecv \/ n = Min(avail, room) }

\* mutant of bad_length: a length of exactly 4096 is rejected as well
bad_length_offbyone(len) == len = 0 \/ len >= MAX_FRAME_LEN

\* session.c:460: the sanity check on the decoded length
bad_length(len) == len = 0 \/ len > MAX_FRAME_LEN

InitFrame ==
    /\ pc = "rx_header"
    /\ peerBytes \in FrameStreams
    /\ stream = peerBytes
    /\ rxbuf = <<>>
    /\ rxlen = 0
    /\ rxresult = NULL
    /\ io = NoCall
    /\ closes = 0
    /\ open_conns = IF pc = "accept" THEN 0 ELSE 1
    /\ tried = <<>>
    /\ mkdirDenied = {}
    /\ path_live = FALSE
    /\ uaf = FALSE
    /\ n_recv = 0
    /\ dataLimit = MaxChunks
    /\ current_username = <<>>
    /\ passwd = AllUsers
    /\ envHome = NULL
    /\ requested_path = <<>>
    /\ fs_dirs = InitDirs
    /\ fs_files = InitFiles
    /\ out = <<>>
    /\ entered = FALSE
    /\ ret = 0
    /\ username = <<>>
    /\ mode = 0
    /\ expanded_path = <<>>
    /\ name_copy = <<>>
    /\ f = NoFile
    /\ dir = {}
    /\ enumerated = <<>>
    /\ received = <<>>
    /\ oldContent = NULL
    /\ opened = "no"
    /\ sendOk = TRUE
    /\ sig = -1
    /\ uploadsLeft = 0
    /\ clientModes = {}
    /\ clientPaths = {}
    /\ clientChunks = {}
    /\ clientNames = {}

frameRest == << current_username, passwd, envHome, clientModes, clientPaths, clientChunks, clientNames, mkdirDenied, dataLimit,
                fsVars, locals, out, uploadsLeft, peerBytes, closes, open_conns >>

\* one recv of recv_exact(fd, &len_be, 4), then, when the header is
\* complete, the decoding and the check of the length
RecvFrameHeader ==
    /\ pc = "rx_header"
    /\ \E n \in recv(Len(stream), 4 - Len(rxbuf)) :
          IF n <= 0
          THEN /\ rxresult' = NULL
               /\ pc' = "rx_done"
               /\ UNCHANGED << stream, rxbuf, rxlen >>
          ELSE /\ stream' = Drop(stream, n)
               /\ LET got == rxbuf \o Take(stream, n) IN
                  IF Len(got) < 4
                  THEN /\ rxbuf' = got
                       /\ UNCHANGED << pc, rxlen, rxresult >>
                  ELSE /\ rxlen' = ntohl(got)
                       /\ rxbuf' = <<>>
                       /\ rxresult' = NULL
                       /\ pc' = IF bad_length(ntohl(got)) THEN "rx_done" ELSE "rx_payload"
    /\ UNCHANGED << frameRest, io >>

\* one recv of recv_exact(fd, path, len), then, when the payload is
\* complete, the terminating NUL and the return
RecvFramePayload ==
    /\ pc = "rx_payload"
    /\ \E n \in recv(Len(stream), rxlen - Len(rxbuf)) :
          IF n <= 0
          THEN /\ rxresult' = NULL
               /\ pc' = "rx_done"
               /\ UNCHANGED << stream, rxbuf >>
          ELSE /\ stream' = Drop(stream, n)
               /\ rxbuf' = rxbuf \o Take(stream, n)
               /\ IF Len(rxbuf) + n < rxlen
                  THEN UNCHANGED << pc, rxresult >>
                  ELSE /\ rxresult' = CStr(rxbuf \o Take(stream, n))
                       /\ pc' = "rx_done"
    /\ UNCHANGED rxlen
    /\ UNCHANGED << frameRest, io >>

NextFrame == RecvFrameHeader \/ RecvFramePayload

SpecFrame == InitFrame /\ [][NextFrame]_vars

----------------------------------------------------------------------------
(* SpecIo: one call of recv_exact or of send_all, one socket call per step. *)
(* io.buf is the caller's buffer (what recv_exact has stored so far, what  *)
(* send_all is given), io.wire the socket (what the peer has still to      *)
(* deliver, what the socket has accepted), io.calls the socket calls that  *)
(* returned a positive count, io.failed whether one returned 0 or less.    *)

IoChars == {97, 98}

IoData(lo, hi) == UNION { [1..k -> IoChars] : k \in lo..hi }

\* recv_exact with len in 0..MaxIoLen and a peer delivering up to len + 1
\* bytes; send_all with len in 0..MaxIoLen of a buffer of len or len + 1
IoCalls ==
    { [NoCall EXCEPT !.fn = "recv_exact", !.len = l, !.wire = d] :
          l \in 0..MaxIoLen, d \in IoData(0, MaxIoLen + 1) }
    \cup { [NoCall EXCEPT !.fn = "send_all", !.len = Len(d), !.buf = d] : d \in IoData(0, MaxIoLen) }
    \cup { [NoCall EXCEPT !.fn = "send_all", !.len = Len(d) - 1, !.buf = d] :
              d \in IoData(1, MaxIoLen + 1) }

InitIo ==
    /\ pc = "io_call"
    /\ stream = <<>>
    /\ rxbuf = <<>>
    /\ rxlen = 0
    /\ rxresult = NULL
    /\ io \in IoCalls
    /\ peerBytes = io.wire
    /\ closes = 0
    /\ open_conns = IF pc = "accept" THEN 0 ELSE 1
    /\ tried = <<>>
    /\ mkdirDenied = {}
    /\ path_live = FALSE
    /\ uaf = FALSE
    /\ n_recv = 0
    /\ dataLimit = MaxChunks
    /\ current_username = <<>>
    /\ passwd = AllUsers
    /\ envHome = NULL
    /\ requested_path = <<>>
    /\ fs_dirs = InitDirs
    /\ fs_files = InitFiles
    /\ out = <<>>
    /\ entered = FALSE
    /\ ret = 0
    /\ username = <<>>
    /\ mode = 0
    /\ expanded_path = <<>>
    /\ name_copy = <<>>
    /\ f = NoFile
    /\ dir = {}
    /\ enumerated = <<>>
    /\ received = <<>>
    /\ oldContent = NULL
    /\ opened = "no"
    /\ sendOk = TRUE
    /\ sig = -1
    /\ uploadsLeft = 0
    /\ clientModes = {}
    /\ clientPaths = {}
    /\ clientChunks = {}
    /\ clientNames = {}

ioRest == << frameRest, stream, rxbuf, rxlen, rxresult >>

\* the values one send(fd, p + total, room, 0) can return
send(room) == {-1, 0} \cup (1..room)

\* one turn of the loop of recv_exact, or its return once total >= len
RecvExactLoop ==
    /\ pc = "io_call"
    /\ io.fn = "recv_exact"
    /\ IF io.total < io.len
       THEN \E n \in recv(Len(io.wire), io.len - io.total) \cup {-1} :
               IF n <= 0
               THEN /\ io' = [io EXCEPT !.failed = TRUE, !.ret = n]
                    /\ pc' = "io_done"
               ELSE /\ io' = [io EXCEPT !.buf = io.buf \o Take(io.wire, n),
                                        !.wire = Drop(io.wire, n),
                                        !.total = io.total + n,
                                        !.calls = io.calls + 1]
                    /\ UNCHANGED pc
       ELSE /\ io' = [io EXCEPT !.ret = io.total]
            /\ pc' = "io_done"
    /\ UNCHANGED ioRest

\* mutant of SendAllLoop: every send starts at p, not at p + total
SendAllLoop_fromstart ==
    /\ pc = "io_call"
    /\ io.fn = "send_all"
    /\ IF io.total < io.len
       THEN \E n \in send(io.len - io.total) :
               IF n <= 0
               THEN /\ io' = [io EXCEPT !.failed = TRUE, !.ret = n]
                    /\ pc' = "io_done"
               ELSE /\ io' = [io EXCEPT !.wire = io.wire \o SubSeq(io.buf, 1, n),
                                        !.total = io.total + n,
                                        !.calls = io.calls + 1]
                    /\ UNCHANGED pc
       ELSE /\ io' = [io EXCEPT !.ret = io.total]
            /\ pc' = "io_done"
    /\ UNCHANGED ioRest

\* one turn of the loop of send_all, or its return once total >= len
SendAllLoop ==
    /\ pc = "io_call"
    /\ io.fn = "send_all"
    /\ IF io.total < io.len
       THEN \E n \in send(io.len - io.total) :
               IF n <= 0
               THEN /\ io' = [io EXCEPT !.failed = TRUE, !.ret = n]
                    /\ pc' = "io_done"
               ELSE /\ io' = [io EXCEPT !.wire = io.wire \o
                                                 SubSeq(io.buf, io.total + 1, io.total + n),
                                        !.total = io.total + n,
                                        !.calls = io.calls + 1]
                    /\ UNCHANGED pc
       ELSE /\ io' = [io EXCEPT !.ret = io.total]
            /\ pc' = "io_done"
    /\ UNCHANGED ioRest

NextIo == RecvExactLoop \/ SendAllLoop

SpecIo == InitIo /\ [][NextIo]_vars

----------------------------------------------------------------------------
(* Authentication with usernames around the size of the hint buffer *)

\* a username of n bytes c
LongName(n, c) == [i \in 1..n |-> c]

\* usernames of 254 to 257 and of 300 bytes, and a short one
AuthNames ==
    { Name_a, LongPayload(300) }
    \cup { LongName(n, c) : n \in (USERNAME_SIZE - 2)..(USERNAME_SIZE + 1), c \in {97, 98, 99} }

InitAuth ==
    /\ pc = "accept"
    /\ current_username = <<>>
    /\ passwd = AllUsers
    /\ envHome = Home_e
    /\ fs_dirs = InitDirs
    /\ fs_files = InitFiles
    /\ out = <<>>
    /\ entered = FALSE
    /\ ret = 0
    /\ username = <<>>
    /\ mode = 0
    /\ requested_path = <<>>
    /\ expanded_path = <<>>
    /\ name_copy = <<>>
    /\ f = NoFile
    /\ dir = {}
    /\ enumerated = <<>>
    /\ received = <<>>
    /\ oldContent = NULL
    /\ opened = "no"
    /\ sendOk = TRUE
    /\ sig = -1
    /\ uploadsLeft = 0
    /\ clientModes = {88}
    /\ clientPaths = {}
    /\ clientChunks = {}
    /\ clientNames = AuthNames
    /\ peerBytes = <<>>
    /\ stream = <<>>
    /\ rxbuf = <<>>
    /\ rxlen = 0
    /\ rxresult = NULL
    /\ io = NoCall
    /\ closes = 0
    /\ open_conns = IF pc = "accept" THEN 0 ELSE 1
    /\ tried = <<>>
    /\ mkdirDenied = {}
    /\ path_live = FALSE
    /\ uaf = FALSE
    /\ n_recv = 0
    /\ dataLimit = MaxChunks

NextAuth == Accept \/ RecvUnlock \/ RecvUsername \/ RecvMode \/ Close

SpecAuth == InitAuth /\ [][NextAuth]_vars

----------------------------------------------------------------------------
(* ensure_parent_dirs on its own: the upload handler stands just before    *)
(* the call, with every resolved target of up to MaxDirPathLen bytes over  *)
(* "/", "a" and "b", and with every choice of directories that mkdir       *)
(* cannot create.                                                          *)

DirChars == {SLASH, 97, 98}

EnsurePaths == UNION { [1..n -> DirChars] : n \in 1..MaxDirPathLen }

DeniedNodes == { << <<98>> >>, << <<98>>, <<97>> >>, << <<98>>, <<98>> >> }

InitEnsure ==
    /\ pc = "u_mkdirs"
    /\ current_username = Name_a
    /\ passwd = AllUsers
    /\ envHome = Home_e
    /\ fs_dirs = InitDirs
    /\ fs_files = InitFiles
    /\ out = <<>>
    /\ entered = TRUE
    /\ ret = 0
    /\ username = Name_a
    /\ mode = MODE_UPLOAD
    /\ expanded_path \in EnsurePaths
    /\ requested_path = expanded_path
    /\ name_copy = <<>>
    /\ f = NoFile
    /\ dir = {}
    /\ enumerated = <<>>
    /\ received = <<>>
    /\ oldContent = NULL
    /\ opened = "no"
    /\ sendOk = TRUE
    /\ sig = UNLOCK_SIGNAL
    /\ uploadsLeft = 0
    /\ clientModes = {MODE_UPLOAD}
    /\ clientPaths = {expanded_path}
    /\ clientChunks = {}
    /\ clientNames = {Name_a}
    /\ peerBytes = <<>>
    /\ stream = <<>>
    /\ rxbuf = <<>>
    /\ rxlen = 0
    /\ rxresult = NULL
    /\ io = NoCall
    /\ closes = 0
    /\ open_conns = IF pc = "accept" THEN 0 ELSE 1
    /\ tried = <<>>
    /\ mkdirDenied \in SUBSET DeniedNodes
    /\ path_live = TRUE
    /\ uaf = FALSE
    /\ n_recv = 0
    /\ dataLimit = MaxChunks

NextEnsure == UploadEnsureDirs

SpecEnsure == InitEnsure /\ [][NextEnsure]_vars

----------------------------------------------------------------------------
(* Properties *)

IsPrefix(a, b) == Len(a) <= Len(b) /\ a = SubSeq(b, 1, Len(a))

\* the final component of a path: what follows its last "/", the whole
\* path when it holds none
LastComponent(p) ==
    LET S == { i \in 0..Len(p) : /\ (i = 0 \/ p[i] = SLASH)
                                 /\ \A j \in (i + 1)..Len(p) : p[j] # SLASH }
    IN Drop(p, CHOOSE i \in S : \A j \in S : j <= i)

\* the bytes reading a node yields: a file's contents, nothing for a directory
FileBytes(n) == IF n \in fs_dirs THEN <<>> ELSE fs_files[n]

\* C1: a connection whose first byte is missing or is not 0x01 is closed
\* with zero bytes written to it, and handle_unlocked_session is never
\* called on it.
C1_BadUnlockClosedSilently ==
    (pc # "unlock" /\ sig # UNLOCK_SIGNAL) =>
        (pc \in {"close", "accept"} /\ out = <<>> /\ ~entered)

C1_Witness == pc = "close" /\ sig = 2 /\ out = <<>> /\ ~entered

\* C2 as stated: in download mode, when the resolved path cannot be opened
\* for reading, the complete server output is exactly one ERROR status byte.
C2_Original ==
    (mode = MODE_DOWNLOAD /\ opened = "fail" /\ pc = "close") => out = << STATUS_ERROR >>

\* C2 as amended: in download mode, when the resolved path cannot be opened
\* for reading, the session ends with -1 and the complete server output is
\* exactly one ERROR status byte when the send of that byte succeeds and
\* empty when it fails; no basename frame and no file bytes are ever sent.
C2_DownloadOpenFailure ==
    (mode = MODE_DOWNLOAD /\ opened = "fail") =>
        /\ pc \in {"d_err", "close", "accept"}
        /\ ~f.open
        /\ pc = "d_err" => out = <<>>
        /\ pc # "d_err" => /\ ret = -1
                           /\ out = IF sendOk THEN << STATUS_ERROR >> ELSE <<>>

C2_Witness ==
    /\ mode = MODE_DOWNLOAD
    /\ opened = "fail"
    /\ pc = "close"
    /\ expanded_path = <<98>>
    /\ out = << STATUS_ERROR >>

\* what a download of the resolved path sends when nothing fails
DownloadOutput ==
    << STATUS_OK >> \o Frame(LastComponent(expanded_path)) \o FileBytes(Node(expanded_path))

\* C3: in download mode, when the resolved path opens and no send fails, the
\* output is one OK byte, one frame holding the basename of the resolved
\* path, then the file's bytes in file order up to end of file; at every
\* moment of the session the output is a prefix of that.
C3_DownloadStream ==
    (mode = MODE_DOWNLOAD /\ opened = "ok") =>
        /\ IsPrefix(out, DownloadOutput)
        /\ (sendOk /\ pc = "close") => out = DownloadOutput
        /\ (sendOk /\ pc = "close" /\ Node(expanded_path) \notin fs_dirs) => ret = 0

C3_Witness ==
    /\ mode = MODE_DOWNLOAD
    /\ opened = "ok"
    /\ sendOk
    /\ pc = "close"
    /\ ret = 0
    /\ expanded_path = <<47, 97, 47, 97>>
    /\ out = <<0, 0, 0, 0, 1, 97, 120, 121>>

\* the proper ancestor prefixes of a path: what precedes each "/" that is
\* not its first byte
Ancestors(path) == { SubSeq(path, 1, j - 1) : j \in { i \in 2..Len(path) : path[i] = SLASH } }

\* C4: in upload mode the OK status byte is sent only after every ancestor
\* directory of the resolved target exists (ensure_parent_dirs having
\* created the missing ones) and the target file has been opened for
\* writing; OK is never on the wire while an ancestor is missing.
C4_UploadOkAfterDirs ==
    mode = MODE_UPLOAD =>
        /\ pc \in {"u_recv", "u_mkdirs", "u_open", "u_ok", "u_err"} => out = <<>>
        /\ pc \in {"u_open", "u_ok", "u_err", "u_loop"} =>
              \A a \in Ancestors(expanded_path) : Kind(fs_dirs, a) # "none"
        /\ (pc = "u_ok" \/ (out # <<>> /\ out[1] = STATUS_OK)) =>
              /\ opened = "ok"
              /\ Node(expanded_path) \in DOMAIN fs_files
              /\ \A a \in Ancestors(expanded_path) : Kind(fs_dirs, a) = "dir"

\* OK sent for "~b/a" = "/b/a", whose ancestor /b did not exist at the start
C4_Witness ==
    /\ mode = MODE_UPLOAD
    /\ out = << STATUS_OK >>
    /\ expanded_path = <<47, 98, 47, 97>>
    /\ << <<98>> >> \notin InitDirs
    /\ << <<98>> >> \in fs_dirs

\* C5: when an upload completes successfully the target file holds exactly
\* the bytes streamed by that upload, whatever earlier uploads or the
\* initial filesystem left there (also when it is shorter than what was
\* there), and a target that already exists as a file never makes the open
\* fail or an ERROR status byte be sent.
C5_ReuploadOverwrites ==
    mode = MODE_UPLOAD =>
        /\ (pc = "close" /\ ret = 0) =>
              /\ opened = "ok"
              /\ Node(expanded_path) \in DOMAIN fs_files
              /\ fs_files[Node(expanded_path)] = received
        /\ oldContent # NULL =>
              /\ opened # "fail"
              /\ \A i \in 1..Len(out) : out[i] # STATUS_ERROR

\* a second upload to a path an earlier upload left as "x", now empty
C5_Witness ==
    /\ mode = MODE_UPLOAD
    /\ pc = "close"
    /\ ret = 0
    /\ oldContent = <<120>>
    /\ received = <<>>
    /\ fs_files[Node(expanded_path)] = <<>>
    /\ out = << STATUS_OK >>

RECURSIVE ListFrames(_)
\* the frames of a listing: one per enumerated name other than "." and ".."
ListFrames(names) ==
    IF names = <<>> THEN <<>>
    ELSE (IF Head(names) \in {Dot, DotDot} THEN <<>> ELSE Frame(Head(names)))
         \o ListFrames(Tail(names))

ListOutput == << STATUS_OK >> \o ListFrames(enumerated) \o <<0, 0, 0, 0>>

\* C6: in list mode, when the directory opens and no send fails, the output
\* is one OK byte, one non-empty frame per entry other than "." and ".." in
\* the order the filesystem enumerates them (every entry once), then one
\* zero-length frame as the last bytes; for an empty directory OK is
\* followed at once by the zero-length frame.
C6_ListStream ==
    (mode = MODE_LIST /\ opened = "ok") =>
        /\ IsPrefix(out, ListOutput)
        /\ \A i \in 1..Len(enumerated) :
              /\ enumerated[i] \in Entries(Node(expanded_path))
              /\ Len(enumerated[i]) > 0
              /\ \A j \in 1..Len(enumerated) : enumerated[i] = enumerated[j] => i = j
        /\ (sendOk /\ pc = "close") =>
              /\ out = ListOutput
              /\ { enumerated[i] : i \in 1..Len(enumerated) } = Entries(Node(expanded_path))
              /\ ret = 0
              /\ Entries(Node(expanded_path)) = {Dot, DotDot} => out = <<0, 0, 0, 0, 0>>

\* the listing of /a enumerated as "..", "b", ".", "a"
C6_Witness ==
    /\ mode = MODE_LIST
    /\ opened = "ok"
    /\ sendOk
    /\ pc = "close"
    /\ enumerated = << DotDot, <<98>>, Dot, <<97>> >>
    /\ out = <<0, 0, 0, 0, 1, 98, 0, 0, 0, 1, 97, 0, 0, 0, 0>>

\* the listing of an empty directory
C6_EmptyDirReached ==
    /\ mode = MODE_LIST
    /\ opened = "ok"
    /\ sendOk
    /\ pc = "close"
    /\ out = <<0, 0, 0, 0, 0>>

\* "~" or "~/..."
IsSelfTilde(p) == p = << TILDE >> \/ (Len(p) >= 2 /\ p[1] = TILDE /\ p[2] = SLASH)

\* "~name" or "~name/..."
IsNamedTilde(p) == Len(p) >= 2 /\ p[1] = TILDE /\ p[2] # SLASH

\* the home directory "~" stands for under the hint h
HomeOfHint(h) ==
    IF h # <<>> /\ h \in DOMAIN passwd THEN passwd[h]
    ELSE IF envHome # NULL THEN envHome
    ELSE RootHome

\* the name of "~name..." and what follows it
TildeName(p) ==
    LET S == { i \in 2..Len(p) : p[i] = SLASH } IN
    IF S = {} THEN Drop(p, 1) ELSE SubSeq(p, 2, (CHOOSE i \in S : \A j \in S : i <= j) - 1)

TildeRemainder(p) == Drop(p, 1 + Len(TildeName(p)))

\* C7: for a raw path that is "~" or starts with "~/", resolve returns H
\* followed by the raw path without its "~", H being the home of the hint
\* when the hint is non-empty and its lookup succeeds, else HOME when set,
\* else "/root"; the result is never the raw path itself.
C7_SelfTilde ==
    (pc = "resolved" /\ IsSelfTilde(requested_path)) =>
        /\ expanded_path = HomeOfHint(current_username) \o Tail(requested_path)
        /\ expanded_path # requested_path

\* "~/a" under the hint "a", whose home is "/a"
C7_Witness ==
    /\ pc = "resolved"
    /\ requested_path = <<126, 47, 97>>
    /\ current_username = Name_a
    /\ Name_a \in DOMAIN passwd
    /\ envHome = Home_e
    /\ expanded_path = <<47, 97, 47, 97>>

\* C8: for a raw path "~name" or "~name/rest", resolve returns name's home
\* followed by the remainder from the first "/" on when the lookup of name
\* succeeds, and the raw path unchanged when it fails; the result is
\* determined by the path and the user database, not by the hint.
C8_NamedTilde ==
    (pc = "resolved" /\ IsNamedTilde(requested_path)) =>
        expanded_path =
            IF TildeName(requested_path) \in DOMAIN passwd
            THEN passwd[TildeName(requested_path)] \o TildeRemainder(requested_path)
            ELSE requested_path

\* "~b/a" under the hint "a"
C8_Witness ==
    /\ pc = "resolved"
    /\ requested_path = <<126, 98, 47, 97>>
    /\ current_username = Name_a
    /\ Name_a \in DOMAIN passwd
    /\ Name_b \in DOMAIN passwd
    /\ expanded_path = <<47, 98, 47, 97>>

\* "~ab" names no user and comes back unchanged
C8_UnknownReached ==
    /\ pc = "resolved"
    /\ requested_path = <<126, 97, 98>>
    /\ Name_a \in DOMAIN passwd
    /\ expanded_path = requested_path

\* C9: a raw path that does not start with "~" is returned unchanged, under
\* every hint, user database and HOME value.
C9_NoTildeUnchanged ==
    (pc = "resolved" /\ (requested_path = <<>> \/ requested_path[1] # TILDE)) =>
        expanded_path = requested_path

\* "a/~b" holds a tilde, not at its start
C9_Witness ==
    /\ pc = "resolved"
    /\ requested_path = <<97, 47, 126, 98>>
    /\ current_username = Name_a
    /\ Name_b \in DOMAIN passwd
    /\ expanded_path = requested_path

\* C10: the hint a session resolves "~" and "~/..." with is the one of its
\* own authentication frame: from the dispatch on, current_username is the
\* stored form of this connection's username, and the resolved path is the
\* home of that hint followed by the rest of the raw path, whatever hints
\* earlier connections sent.
C10_HintOfOwnSession ==
    /\ pc \in {"mode", "d_recv", "d_open", "d_err", "d_ok", "d_namelen", "d_name", "d_loop",
               "u_recv", "u_mkdirs", "u_open", "u_err", "u_ok", "u_loop",
               "l_recv", "l_open", "l_err", "l_ok", "l_loop"} =>
          current_username = Take(username, USERNAME_SIZE - 1)
    /\ (requested_path # <<>> /\ IsSelfTilde(requested_path)) =>
          expanded_path =
              HomeOfHint(Take(username, USERNAME_SIZE - 1)) \o Tail(requested_path)

\* a session with the hint "c" resolves "~/a" through HOME after an earlier
\* session with the hint "a" has uploaded "x" to "~/a" = "/a/a"
C10_Witness ==
    /\ pc = "d_open"
    /\ username = Name_c
    /\ requested_path = <<126, 47, 97>>
    /\ envHome = Home_e
    /\ expanded_path = <<47, 101, 47, 97>>
    /\ fs_files[<< <<97>>, <<97>> >>] = <<120>>

\* the peer sends the frame of b, and possibly more after it
SendsFrame(b) == peerBytes = Frame(b) \/ peerBytes = Frame(b) \o <<98>>

\* the bytes of b before its first NUL, all of b when it has none
UpToNul(b) ==
    LET Z == { i \in 1..Len(b) : b[i] = NUL } IN
    IF Z = {} THEN b ELSE SubSeq(b, 1, (CHOOSE i \in Z : \A j \in Z : i <= j) - 1)

\* C11 as stated: for every byte sequence b with 0 < len(b) <= 4096,
\* reading a frame from a stream carrying the length of b and then b
\* returns exactly b, however the bytes are split across recv calls.
C11_Original ==
    \A b \in FramePayloads : (pc = "rx_done" /\ SendsFrame(b)) => rxresult = b

\* C11 as amended: reading the frame of b consumes exactly the 4 + len(b)
\* bytes of the frame and returns the bytes of b up to its first zero
\* byte, which is exactly b when b holds no zero byte, however the bytes
\* are split across recv calls.
C11_FrameRoundTrip ==
    \A b \in FramePayloads :
        (pc = "rx_done" /\ SendsFrame(b)) =>
            /\ rxresult = UpToNul(b)
            /\ rxbuf = b
            /\ stream = Drop(peerBytes, 4 + Len(b))
            /\ (\A i \in 1..Len(b) : b[i] # NUL) => rxresult = b

\* a frame of 4096 bytes was read whole and the byte after it left unread
C11_Witness ==
    /\ pc = "rx_done"
    /\ peerBytes = Frame(LongPayload(MAX_FRAME_LEN)) \o <<98>>
    /\ rxresult = LongPayload(MAX_FRAME_LEN)
    /\ stream = <<98>>

\* a payload with a zero byte comes back cut at that byte
C11_NulReached ==
    /\ pc = "rx_done"
    /\ peerBytes = Frame(<<97, 0>>)
    /\ rxresult = <<97>>

\* the length the first four bytes of the peer's stream encode
SentLength ==
    peerBytes[1] * 16777216 + peerBytes[2] * 65536 + peerBytes[3] * 256 + peerBytes[4]

\* C12: reading a frame fails, having consumed the 4 header bytes and no
\* payload byte, when the length prefix is 0 or greater than 4096; it
\* succeeds for every length from 1 to 4096 when the payload arrives in
\* full; it fails when the connection closes before the 4 header bytes or
\* before all payload bytes have arrived.
C12_FrameLengthCheck ==
    pc = "rx_done" =>
        IF Len(peerBytes) < 4 THEN rxresult = NULL
        ELSE IF SentLength = 0 \/ SentLength > 4096
             THEN rxresult = NULL /\ stream = Drop(peerBytes, 4)
             ELSE IF Len(peerBytes) < 4 + SentLength THEN rxresult = NULL
                  ELSE rxresult # NULL /\ Len(rxbuf) = SentLength

\* a header announcing 4097 bytes is refused with its payload unread
C12_Witness ==
    /\ pc = "rx_done"
    /\ peerBytes = htonl(4097) \o LongPayload(4097)
    /\ rxresult = NULL
    /\ stream = LongPayload(4097)

\* a frame of 4096 bytes cut one byte short fails
C12_ShortReached ==
    /\ pc = "rx_done"
    /\ Len(peerBytes) = 4 + 4095
    /\ SentLength = 4096
    /\ rxresult = NULL

\* C13: whenever a frame the server reads is malformed (length 0, length
\* over 4096, or short read), the username frame or the path frame of
\* download, upload or list, the session ends with no status byte and no
\* other byte sent to the client.
C13_MalformedFrameSilent ==
    (pc = "close" /\ (username = NULL \/ requested_path = NULL)) => out = <<>>

\* the positions inside handle_download, handle_upload and handle_list
HandlerPcs ==
    {"d_recv", "d_open", "d_err", "d_ok", "d_namelen", "d_name", "d_loop",
     "u_recv", "u_mkdirs", "u_open", "u_err", "u_ok", "u_loop",
     "l_recv", "l_open", "l_err", "l_ok", "l_loop"}

\* C14: when the mode byte is any value other than 'D', 'U' or 'L', or
\* cannot be read, the session ends with -1, no status byte sent, no
\* handler invoked and no path frame read.
C14_BadModeSilent ==
    /\ pc \in HandlerPcs => mode \in {MODE_DOWNLOAD, MODE_UPLOAD, MODE_LIST}
    /\ (entered /\ username \notin {<<>>, NULL}
           /\ mode \notin {MODE_DOWNLOAD, MODE_UPLOAD, MODE_LIST}
           /\ pc \in {"close", "accept"}) =>
          /\ out = <<>>
          /\ ret = -1
          /\ requested_path = <<>>
          /\ opened = "no"

\* the mode byte 'X' after a good username
C14_Witness ==
    /\ pc = "close"
    /\ username = Name_a
    /\ mode = 88
    /\ out = <<>>
    /\ ret = -1

\* the mode byte never arrived
C14_NoModeReached ==
    /\ pc = "close"
    /\ username = Name_a
    /\ mode = 0
    /\ ret = -1

\* C15: in upload mode, when creating the ancestor directories of the
\* resolved target path fails, the server sends an ERROR status byte to
\* the client before the connection is closed.
C15_MkdirFailureSendsError ==
    (mode = MODE_UPLOAD /\ pc = "close" /\ requested_path \notin {<<>>, NULL}
        /\ opened = "no") =>
        out = << STATUS_ERROR >>

\* C16: when the username frame has an invalid length, the server sends a
\* STATUS_ERROR byte and then the connection closes.
C16_BadUsernameSendsError ==
    (pc = "close" /\ username = NULL) => out = << STATUS_ERROR >>

\* C17 as stated: in upload mode and in list mode, when the resolved path
\* cannot be opened, the complete server output is exactly one ERROR
\* status byte.
C17_Original ==
    (mode \in {MODE_UPLOAD, MODE_LIST} /\ opened = "fail" /\ pc = "close") =>
        out = << STATUS_ERROR >>

\* C17 as amended: in upload mode and in list mode, when the resolved path
\* cannot be opened, the session ends with -1 and the complete server
\* output is exactly one ERROR status byte when the send of that byte
\* succeeds and empty when it fails; in upload no byte of client payload is
\* read and no file is created or changed.
C17_OpenFailure ==
    (mode \in {MODE_UPLOAD, MODE_LIST} /\ opened = "fail") =>
        /\ pc \in {"u_err", "l_err", "close", "accept"}
        /\ pc \in {"u_err", "l_err"} => out = <<>>
        /\ pc \in {"close", "accept"} =>
              /\ ret = -1
              /\ out = IF sendOk THEN << STATUS_ERROR >> ELSE <<>>
        /\ enumerated = <<>>
        /\ mode = MODE_UPLOAD =>
              /\ received = <<>>
              /\ ~f.open
              /\ IF oldContent = NULL
                 THEN Node(expanded_path) \notin DOMAIN fs_files
                 ELSE fs_files[Node(expanded_path)] = oldContent

\* an upload to "/a/", a directory, answered with ERROR
C17_Witness ==
    /\ mode = MODE_UPLOAD
    /\ opened = "fail"
    /\ pc = "close"
    /\ expanded_path = <<47, 97, 47>>
    /\ out = << STATUS_ERROR >>

\* a listing of "b", which does not exist, answered with ERROR
C17_ListReached ==
    /\ mode = MODE_LIST
    /\ opened = "fail"
    /\ pc = "close"
    /\ expanded_path = <<98>>
    /\ out = << STATUS_ERROR >>

\* the positions at which a handler is about to send a status byte
StatusPcs == {"d_err", "d_ok", "u_err", "u_ok", "l_err", "l_ok"}

\* C18: in every session the server sends at most one status byte, as the
\* first byte of its output; if it is ERROR it is the last byte sent on
\* that connection; after an OK byte only the bytes of the download or
\* listing stream follow, never an ERROR status, whatever fails after OK.
C18_OneStatusByte ==
    /\ pc \in StatusPcs => out = <<>>
    /\ out # <<>> =>
          /\ out[1] \in {STATUS_OK, STATUS_ERROR}
          /\ out[1] = STATUS_ERROR => (out = << STATUS_ERROR >> /\ pc \in {"close", "accept"})
          /\ out[1] = STATUS_OK =>
                /\ pc \notin StatusPcs
                /\ opened = "ok"
                /\ mode = MODE_DOWNLOAD => IsPrefix(out, DownloadOutput)
                /\ mode = MODE_UPLOAD => out = << STATUS_OK >>
                /\ mode = MODE_LIST => IsPrefix(out, ListOutput)

\* a download of the directory "/a": OK and the basename frame were sent,
\* then the read failed and the session ended with no further status byte
C18_Witness ==
    /\ mode = MODE_DOWNLOAD
    /\ pc = "close"
    /\ ret = -1
    /\ sendOk
    /\ expanded_path = <<47, 97>>
    /\ out = << STATUS_OK >> \o Frame(<<97>>)

\* the state of the connection at a position of the server: 1 AwaitingUnlock,
\* 2 Authenticating, 3 AwaitingMode, 4 in a handler, 5 Closed (the session
\* is over, close is due or done)
Phase(p) ==
    IF p = "unlock" THEN 1
    ELSE IF p = "auth" THEN 2
    ELSE IF p = "mode" THEN 3
    ELSE IF p \in HandlerPcs THEN 4
    ELSE 5

\* the handler a position belongs to
HandlerOf(p) ==
    IF p \in {"d_recv", "d_open", "d_err", "d_ok", "d_namelen", "d_name", "d_loop"}
    THEN MODE_DOWNLOAD
    ELSE IF p \in {"u_recv", "u_mkdirs", "u_open", "u_err", "u_ok", "u_loop"}
    THEN MODE_UPLOAD
    ELSE MODE_LIST

\* C19: every connection starts in AwaitingUnlock and moves only forward
\* through Authenticating, AwaitingMode, one handler and Closed, one state
\* at a time or straight to Closed: no state is re-entered once left, the
\* handler is never changed, and only a closed connection gives way to the
\* next one.
C19_PhaseOrder ==
    [][ /\ pc = "accept" => pc' = "unlock"
        /\ pc' = "accept" => pc \in {"close", "accept"}
        /\ (pc # "accept" /\ pc' # "accept") =>
              /\ Phase(pc') \in {Phase(pc), Phase(pc) + 1, 5}
              /\ (Phase(pc) = 4 /\ Phase(pc') = 4) => HandlerOf(pc') = HandlerOf(pc)
              /\ Phase(pc') = 4 => HandlerOf(pc') = mode'
      ]_vars

\* a connection that went through every state: a listing that completed
C19_Witness ==
    /\ pc = "close"
    /\ entered
    /\ username = Name_a
    /\ mode = MODE_LIST
    /\ opened = "ok"
    /\ ret = 0

\* C20: after the session entry point returns, with success or failure,
\* the acceptor closes that connection exactly once and then is back at
\* accepting the next connection: no close happens before the session is
\* over, the only step after it is the one close leading to accept, that
\* step is always taken, and at accept the next connection can be taken.
C20_ClosedOnceThenAccept ==
    /\ [](pc # "accept" => closes = 0)
    /\ [][pc = "close" => (pc' = "accept" /\ closes' = 1)]_vars
    /\ [](pc = "accept" => (closes <= 1 /\ ENABLED Accept))
    /\ (pc = "close") ~> (pc = "accept" /\ closes = 1)

\* a session that failed (no mode byte came) is closed and the server is
\* back at accept
C20_Witness ==
    /\ pc = "accept"
    /\ closes = 1
    /\ entered
    /\ username = Name_a
    /\ ret = -1

\* C21: every length prefix the server writes outside the list terminator
\* is between 1 and 4096: the basename frame of a download never has
\* length 0, and the entry frames of a listing never have length 0.
C21_LengthPrefixesInRange ==
    /\ (mode = MODE_DOWNLOAD /\ Len(out) >= 5) =>
          (out[2] * 16777216 + out[3] * 65536 + out[4] * 256 + out[5]) \in 1..4096
    /\ mode = MODE_LIST =>
          \A i \in 1..Len(enumerated) :
              skipped(enumerated[i]) \/ Len(enumerated[i]) \in 1..4096

\* C22: in every handler a failed send or receive ends the session at that
\* step: once a send has failed or a frame could not be read, the handler
\* has returned and makes no further send or receive.
C22_StopAtFirstSocketFailure ==
    (~sendOk \/ requested_path = NULL \/ username = NULL) => pc \in {"close", "accept"}

\* C23: a well-formed username frame longer than the hint buffer does not
\* end the session: the stored hint is the first 255 bytes of the username,
\* the whole username when it is at most 255 bytes, and the session goes on
\* to read the mode byte.
C23_LongUsernameTruncated ==
    /\ [](pc = "mode" =>
            /\ username \notin {<<>>, NULL}
            /\ current_username =
                  IF Len(username) > 255 THEN SubSeq(username, 1, 255) ELSE username)
    /\ [][(pc = "auth" /\ username' # NULL) => pc' = "mode"]_vars

\* a username of 256 bytes was stored as its first 255 bytes
C23_Witness ==
    /\ pc = "mode"
    /\ Len(username) = 256
    /\ Len(current_username) = 255
    /\ ret = 0

\* the indices of the "/" bytes of a path that are not its first byte
SlashIndices(path) == { j \in 2..Len(path) : path[j] = SLASH }

\* the proper ancestor prefixes of a path, each ending just before one of
\* those "/" bytes, from the shortest to the longest
AncestorPrefixes(path) ==
    LET S == SlashIndices(path) IN
    [n \in 1..Cardinality(S) |->
        SubSeq(path, 1, (CHOOSE j \in S : Cardinality({ k \in S : k < j }) = n - 1) - 1)]

\* the path names a directory of dirs or a file
PathExists(dirs, path) == Node(path) \in dirs \/ Node(path) \in DOMAIN fs_files

\* C24: ensure_parent_dirs calls mkdir on the proper ancestor prefixes of
\* the path (each ending just before a "/" at index >= 1), from the
\* shortest to the longest and never on the final component; "already
\* exists" counts as success; at the first other failure it returns
\* failure, having attempted no deeper directory and leaving the
\* directories it created in place; on success every ancestor prefix
\* exists.  No directory is ever removed, and only attempted prefixes are
\* created.
C24_EnsureParentDirs ==
    [][(pc = "u_mkdirs" /\ Len(expanded_path) < TMP_SIZE) =>
          LET P == AncestorPrefixes(expanded_path)
              k == Len(tried')
          IN /\ IsPrefix(tried', P)
             /\ pc' \in {"u_open", "close"}
             /\ fs_dirs \subseteq fs_dirs'
             /\ (fs_dirs' \ fs_dirs) \subseteq { Node(tried'[i]) : i \in 1..k }
             /\ pc' = "u_open" =>
                   /\ tried' = P
                   /\ ret' = ret
                   /\ \A i \in 1..Len(P) : PathExists(fs_dirs', P[i])
             /\ pc' = "close" =>
                   /\ ret' = -1
                   /\ k >= 1
                   /\ \A i \in 1..(k - 1) : PathExists(fs_dirs', tried'[i])
                   /\ ~PathExists(fs_dirs, tried'[k])
                   /\ ~PathExists(fs_dirs', tried'[k])]_vars

\* ensure_parent_dirs failed at its second or a later mkdir after having
\* created a directory, which is still there
C24_Witness ==
    /\ pc = "close"
    /\ mode = MODE_UPLOAD
    /\ ret = -1
    /\ Len(tried) >= 2
    /\ Node(tried[1]) \in fs_dirs \ InitDirs
    /\ Node(tried[Len(tried)]) \notin fs_dirs

\* ensure_parent_dirs succeeded over an existing directory, a directory it
\* created and nothing else
C24_SuccessReached ==
    /\ pc = "u_open"
    /\ Len(tried) = 2
    /\ fs_dirs \ InitDirs = { Node(tried[2]) }

C25_ShortWriteReached ==
    /\ mode = MODE_UPLOAD
    /\ pc = "close"
    /\ ret = -1
    /\ n_recv = 2
    /\ received = <<120, 121, 122>>
    /\ fs_files[Node(expanded_path)] = <<120, 121>>

\* an upload failed at a recv after its first chunk
C25_RecvErrorReached ==
    /\ mode = MODE_UPLOAD
    /\ pc = "close"
    /\ ret = -1
    /\ n_recv = -1
    /\ received = <<120>>

\* C26: recv_exact and send_all call the socket until exactly len bytes
\* are transferred: whatever positive counts the calls return, the bytes
\* moved are the first bytes of the source in order and never more than
\* len, and the call returns len once len bytes are moved; it fails only
\* when one socket call returned 0 or less, returning that value; there
\* are never more calls with a positive count than bytes moved, so at most
\* len of them.
C26_ExactTransfer ==
    io.fn # "none" =>
        /\ io.total <= io.len
        /\ io.calls <= io.total
        /\ io.fn = "recv_exact" =>
              /\ io.buf = SubSeq(peerBytes, 1, io.total)
              /\ io.buf \o io.wire = peerBytes
        /\ io.fn = "send_all" => io.wire = SubSeq(io.buf, 1, io.total)
        /\ pc = "io_call" => ~io.failed
        /\ pc = "io_done" =>
              /\ io.failed <=> io.total < io.len
              /\ io.failed => io.ret <= 0
              /\ ~io.failed => (io.ret = io.len /\ io.total = io.len /\ io.calls <= io.len)

\* recv_exact of 4 bytes returned 4 after three recv calls, a fifth byte
\* of the peer being left unread
C26_Witness ==
    /\ pc = "io_done"
    /\ io.fn = "recv_exact"
    /\ io.len = 4
    /\ io.ret = 4
    /\ io.calls = 3
    /\ io.buf = <<97, 98, 98, 97>>
    /\ Len(io.wire) = 1

\* send_all of 3 of the 4 bytes of a buffer returned 3 after three sends
C26_SendReached ==
    /\ pc = "io_done"
    /\ io.fn = "send_all"
    /\ io.len = 3
    /\ io.ret = 3
    /\ io.calls = 3
    /\ io.buf = <<97, 98, 97, 98>>
    /\ io.wire = <<97, 98, 97>>

\* recv_exact failed at its third recv, two bytes being stored
C26_FailureReached ==
    /\ pc = "io_done"
    /\ io.fn = "recv_exact"
    /\ io.len = 4
    /\ io.ret = 0
    /\ io.calls = 2
    /\ io.total = 2

\* C27: in download the basename is copied to name_copy before the buffer
\* of the resolved path is freed; on every path through download, upload
\* and list no read of that buffer happens once it is freed; and the
\* basename frame sent is the basename computed when the path was
\* resolved.
C27_NoUseAfterFree ==
    /\ ~uaf
    /\ (mode = MODE_DOWNLOAD /\ pc \in {"d_ok", "d_namelen", "d_name", "d_loop"}) =>
          /\ ~path_live
          /\ name_copy = path_basename(expanded_path)
    /\ (mode = MODE_DOWNLOAD /\ pc = "d_loop") =>
          SubSeq(out, 1, 5 + Len(path_basename(expanded_path)))
              = << STATUS_OK >> \o Frame(path_basename(expanded_path))
    /\ (pc \in {"d_open", "u_mkdirs", "u_open", "l_open"}) => path_live
    /\ (pc \in {"u_loop", "l_ok", "l_loop", "close", "accept"}) => ~path_live

\* the name "a" of the resolved path "/a/a" was sent after the buffer of
\* the path had been freed
C27_Witness ==
    /\ mode = MODE_DOWNLOAD
    /\ pc = "d_loop"
    /\ ~path_live
    /\ expanded_path = <<47, 97, 47, 97>>
    /\ out = << STATUS_OK, 0, 0, 0, 1, 97 >>

\* C28: handle_unlocked_session returns 0 only when the selected operation
\* completed with every send and receive on the connection succeeding;
\* whenever a send fails inside a handler, the list terminator and the
\* upload OK status byte included, it returns -1.
C28_ZeroOnlyWhenEverySendSucceeded ==
    (pc = "close" /\ entered) =>
        /\ ret \in {0, -1}
        /\ ret = 0 => (sendOk /\ requested_path # NULL /\ username # NULL)
        /\ ~sendOk => ret = -1

\* C28, download alone: a download returns 0 only when every send
\* succeeded, and -1 whenever one failed
C28_DownloadChecksEverySend ==
    (pc = "close" /\ entered /\ mode = MODE_DOWNLOAD) =>
        /\ ret \in {0, -1}
        /\ ret = 0 => (sendOk /\ requested_path # NULL /\ username # NULL)
        /\ ~sendOk => ret = -1

\* the operation the mode byte selected ran to its end
OperationCompleted ==
    /\ opened = "ok"
    /\ ret = 0
    /\ mode = MODE_DOWNLOAD => out = DownloadOutput
    /\ mode = MODE_UPLOAD => (n_recv = 0 /\ fs_files[Node(expanded_path)] = received)
    /\ mode = MODE_LIST => out = ListOutput

\* a step of the protocol or an I/O call failed
StepFailed ==
    \/ ~entered /\ sig # UNLOCK_SIGNAL
    \/ entered /\ ret = -1
    \/ entered /\ ~sendOk

\* C29: when every blocking socket call returns in the end and every file
\* and directory is finite, every accepted connection is closed in the end;
\* and a connection is closed only after one operation ran to completion
\* or after a protocol step or an I/O call failed: the only steps that
\* lead to the close are the returns of the session's own calls.
C29_EverySessionCloses ==
    /\ (pc # "accept") ~> (pc = "accept" /\ closes = 1)
    /\ [](pc = "close" => (OperationCompleted \/ StepFailed))
    /\ [][(pc # "close" /\ pc' = "close") => SessionStep]_vars
    /\ [][(pc = "accept" /\ pc' # "accept") => (pc' = "unlock" /\ closes' = 0)]_vars

\* a complete download of /a/a is over and its connection closed
C29_Witness ==
    /\ pc = "accept"
    /\ closes = 1
    /\ mode = MODE_DOWNLOAD
    /\ ret = 0
    /\ out = <<0, 0, 0, 0, 1, 97, 120, 121>>

\* the nodes of the proper ancestor prefixes of a path
AncestorNodes(path) == { Node(a) : a \in Ancestors(path) }

\* C30: the only filesystem changes a session makes are the creation of
\* ancestor directories of an upload target and the creation, truncation
\* and writing of the upload target itself.  Every step that changes the
\* filesystem is a step of an upload after its path frame was read; steps
\* before the mode byte, steps of downloads and listings and the step that
\* reads a malformed path frame change nothing; no step removes a
\* directory or a file.
C30_OnlyUploadsChangeFiles ==
    [][/\ fs_dirs \subseteq fs_dirs'
       /\ DOMAIN fs_files \subseteq DOMAIN fs_files'
       /\ fsVars' # fsVars =>
             /\ mode = MODE_UPLOAD
             /\ pc \in {"u_mkdirs", "u_open", "u_loop"}
             /\ requested_path # NULL
             /\ (fs_dirs' \ fs_dirs) \subseteq AncestorNodes(expanded_path)
             /\ \A n \in DOMAIN fs_files' :
                   (n \notin DOMAIN fs_files \/ fs_files'[n] # fs_files[n]) =>
                       n = Node(expanded_path)
       /\ (mode' # MODE_UPLOAD \/ pc \in {"accept", "unlock", "auth", "mode", "u_recv", "close"}) =>
             fsVars' = fsVars]_vars

\* an upload to "/b/a" has created the directory /b and the file /b/a and
\* written "x" to it
C30_Witness ==
    /\ mode = MODE_UPLOAD
    /\ pc = "close"
    /\ expanded_path = <<47, 98, 47, 97>>
    /\ fs_dirs = InitDirs \cup { << <<98>> >> }
    /\ DOMAIN fs_files = DOMAIN InitFiles \cup { << <<98>>, <<97>> >> }
    /\ fs_files[<< <<98>>, <<97>> >>] = <<120>>

\* a download ended after an upload of an earlier session had changed the
\* filesystem
C30_DownloadReached ==
    /\ mode = MODE_DOWNLOAD
    /\ pc = "close"
    /\ ret = 0
    /\ fs_dirs # InitDirs

\* C31: the acceptor serves at most one session at a time.  At most one
\* accepted connection is open; one is open exactly while the server is
\* not waiting in accept; a connection is accepted only when none is open,
\* that is before the first session or after the close of the previous
\* one; and while a session is at any of its steps (a read the client
\* leaves unanswered included) no accept can take place.
C31_OneSessionAtATime ==
    /\ [](open_conns \in {0, 1})
    /\ [](open_conns = 1 <=> pc # "accept")
    /\ [](pc # "accept" => ~ENABLED Accept)
    /\ [][open_conns' > open_conns =>
             /\ open_conns = 0
             /\ pc = "accept"
             /\ pc' = "unlock"
             /\ (closes = 1 \/ (closes = 0 /\ sig = -1 /\ username = <<>>))]_vars
    /\ [][open_conns' < open_conns => (pc = "close" /\ pc' = "accept")]_vars

\* a later session waits for its path frame, one connection open, after
\* an earlier session uploaded to "/b/a"
C31_Witness ==
    /\ pc = "d_recv"
    /\ open_conns = 1
    /\ closes = 0
    /\ << <<98>> >> \in fs_dirs

\* C32: in every session the server sends no byte during the unlock,
\* authentication and mode steps; the first byte it sends, if any, is a
\* status byte, sent by a handler after the path frame has been read and
\* the path resolved; an upload session sends at most that one byte.
C32_FirstByteAfterResolve ==
    /\ [](pc \in {"unlock", "auth", "mode"} => out = <<>>)
    /\ [](mode \notin {MODE_DOWNLOAD, MODE_UPLOAD, MODE_LIST} => out = <<>>)
    /\ [][(out = <<>> /\ out' # <<>>) =>
             /\ pc \in StatusPcs
             /\ out'[1] \in {STATUS_OK, STATUS_ERROR}
             /\ requested_path # NULL
             /\ expanded_path = expand_tilde(requested_path)]_vars
    /\ [](mode = MODE_UPLOAD => Len(out) <= 1)

\* C32 without the listing whose path frame could not be read: everywhere
\* else the first byte sent is a status byte sent after the path has been
\* read and resolved
C32_ExceptListWithoutPath ==
    /\ [](pc \in {"unlock", "auth", "mode"} => out = <<>>)
    /\ [](mode \notin {MODE_DOWNLOAD, MODE_UPLOAD, MODE_LIST} => out = <<>>)
    /\ [][(out = <<>> /\ out' # <<>> /\ ~(mode = MODE_LIST /\ requested_path = NULL)) =>
             /\ pc \in StatusPcs
             /\ out'[1] \in {STATUS_OK, STATUS_ERROR}
             /\ requested_path # NULL
             /\ expanded_path = expand_tilde(requested_path)]_vars
    /\ [](mode = MODE_UPLOAD => Len(out) <= 1)

\* C33: an upload truncates its target as soon as fopen succeeds, before
\* any payload byte is read; while the data phase runs and after it has
\* ended on a receive error or on the client's close, the target holds
\* exactly the bytes received so far and nothing of what it held before;
\* whatever ends the session, the file stays a prefix of the bytes
\* received, also after the close: the previous contents never come back.
C33_TruncatedAtOpen ==
    (mode = MODE_UPLOAD /\ opened = "ok") =>
        LET file == fs_files[Node(expanded_path)] IN
        /\ pc = "u_ok" => (file = <<>> /\ received = <<>>)
        /\ pc = "u_loop" => file = received
        /\ (pc \in {"close", "accept"} /\ n_recv <= 0) => file = received
        /\ IsPrefix(file, received)

\* an upload to "/a/a", which held "xy", ended on a receive error before
\* any byte came: the file is empty
C33_Witness ==
    /\ mode = MODE_UPLOAD
    /\ opened = "ok"
    /\ pc = "accept"
    /\ closes = 1
    /\ ret = -1
    /\ n_recv = -1
    /\ oldContent = <<120, 121>>
    /\ received = <<>>
    /\ fs_files[<< <<97>>, <<97>> >>] = <<>>

\* the same target after the client closed having sent "yz"
C33_EarlyCloseReached ==
    /\ mode = MODE_UPLOAD
    /\ pc = "close"
    /\ n_recv = 0
    /\ oldContent = <<120, 121>>
    /\ fs_files[<< <<97>>, <<97>> >>] = <<121, 122>>

\* the target is empty after fopen, no byte having been read
C33_TruncatedReached ==
    /\ mode = MODE_UPLOAD
    /\ pc = "u_ok"
    /\ oldContent = <<120, 121>>
    /\ fs_files[<< <<97>>, <<97>> >>] = <<>>

====
